---- MODULE Spec2Model ----
(***************************************************************************)
(* Model of github.com/droot/datastore: the struct codec cache             *)
(* (getStructCodec), the Query builder and the UpdateQuery builder, with   *)
(* their compilation to CQL text.                                          *)
(*                                                                         *)
(* Go strings are TLA+ strings; a Go pointer is an index into a heap       *)
(* (a sequence of objects), 0 is the nil pointer; a Go error is a sequence *)
(* holding its message, the empty sequence is the nil error.               *)
(***************************************************************************)
EXTENDS Integers, Sequences, FiniteSets, TLC

VARIABLES
  structCodecs,       \* entity.go: map[reflect.Type]*structCodec, 0 = absent
  codecHeap,          \* the structCodec objects allocated so far
  structCodecsMutex,  \* 0 = unlocked, else the goroutine holding it
  pc,                 \* position of each goroutine inside getStructCodec
  frame,              \* locals of each goroutine's getStructCodecLocked call
  handedOut,          \* history: the codecs each type's callers have received
  queryHeap,          \* the Query structs allocated so far
  arrayHeap,          \* the backing arrays of the slices allocated so far
  calls,              \* history: the builder calls that produced each Query
  iterators,          \* iter := q.Run(session): the Iterator the caller holds
  ran,                \* the receiver of that Run and what toCQL returned
  newErr,             \* the error returned by the last constructor call
  updateHeap,         \* the UpdateQuery structs allocated so far
  mapHeap,            \* the maps allocated so far
  ucalls,             \* history: the builder calls that produced each UpdateQuery
  cqlResults,         \* what the last CQL or Run of an UpdateQuery got
  db,                 \* the tables behind the session: their rows
  cursor,             \* the *gocql.Iter the caller's Iterator holds
  dst,                \* the record the caller passed to Next or First
  ret,                \* what the last Next, Close or First returned
  saves,              \* history: the last SaveEntity call
  firsts,             \* history: what happened inside the last First call
  explicit            \* q, err := NewQuery(kind, entity), and its statement

codecVars ==
  <<structCodecs, codecHeap, structCodecsMutex, pc, frame, handedOut>>

queryVars == <<queryHeap, arrayHeap, calls, iterators, ran, newErr>>

updateVars == <<updateHeap, mapHeap, ucalls, cqlResults>>

callerVars == <<db, cursor, dst, ret, saves, firsts, explicit>>

-----------------------------------------------------------------------------
(* Bounds *)

MaxQueries == 3
MaxUpdates == 3

NumProcs == 2
MaxCodecs == 3

Procs == 1..NumProcs

-----------------------------------------------------------------------------
(* strings package *)

nil == <<>>
NewError(msg) == <<msg>>

CharAt(s, i) == SubSeq(s, i, i)

RECURSIVE TrimLeftSet(_, _)
TrimLeftSet(s, cutset) ==
  IF Len(s) > 0 /\ CharAt(s, 1) \in cutset
    THEN TrimLeftSet(SubSeq(s, 2, Len(s)), cutset)
    ELSE s

RECURSIVE TrimRight(_, _)
TrimRight(s, cutset) ==
  IF Len(s) > 0 /\ CharAt(s, Len(s)) \in cutset
    THEN TrimRight(SubSeq(s, 1, Len(s) - 1), cutset)
    ELSE s

TrimSpace(s) == TrimRight(TrimLeftSet(s, {" "}), {" "})

HasPrefix(s, prefix) ==
  Len(s) >= Len(prefix) /\ SubSeq(s, 1, Len(prefix)) = prefix

\* strings.Index for a one-character separator: 0-based, -1 when absent.
Index(s, ch) ==
  IF \E i \in 1..Len(s) : CharAt(s, i) = ch
    THEN (CHOOSE i \in 1..Len(s) :
            /\ CharAt(s, i) = ch
            /\ \A j \in 1..(i - 1) : CharAt(s, j) # ch) - 1
    ELSE -1

RECURSIVE Join(_, _)
Join(elems, sep) ==
  IF Len(elems) = 0 THEN ""
  ELSE IF Len(elems) = 1 THEN elems[1]
  ELSE elems[1] \o sep \o Join(Tail(elems), sep)

Digit(d) ==
  CASE d = 0 -> "0" [] d = 1 -> "1" [] d = 2 -> "2" [] d = 3 -> "3"
    [] d = 4 -> "4" [] d = 5 -> "5" [] d = 6 -> "6" [] d = 7 -> "7"
    [] d = 8 -> "8" [] d = 9 -> "9"

RECURSIVE FormatUint(_)
FormatUint(n) ==
  IF n < 10 THEN Digit(n) ELSE FormatUint(n \div 10) \o Digit(n % 10)

\* the %q verb
Quote(str) == "\"" \o str \o "\""

\* the %d verb
FormatInt(n) == IF n < 0 THEN "-" \o FormatUint(0 - n) ELSE FormatUint(n)

-----------------------------------------------------------------------------
(* Record types handed to the library (reflect.Type values).  Tag is the   *)
(* value of the field's `cql` struct tag.                                   *)

Field(name, tag, anonymous) ==
  [Name |-> name, Tag |-> tag, Anonymous |-> anonymous]

\* example/main.go
Tweet ==
  << Field("ColumnFamily", "tweet", FALSE),
     Field("Timeline", "timeline,", FALSE),
     Field("Id", "id,", FALSE),
     Field("TextVal", "text,", FALSE) >>

\* a type with an embedded field, options on the table name, an excluded
\* field and an untagged field
User ==
  << Field("Base", "", TRUE),
     Field("ColumnFamily", "user,opt", FALSE),
     Field("Secret", "-", FALSE),
     Field("Age", "", FALSE) >>

\* a type that carries no ColumnFamily field
Point ==
  << Field("X", "x", FALSE) >>

\* a type whose ColumnFamily field carries no annotation
Plain ==
  << Field("ColumnFamily", "", FALSE),
     Field("Id", "id", FALSE) >>

\* a type whose ColumnFamily field is annotated with the exclusion marker,
\* after a field that maps
Dash ==
  << Field("Id", "id", FALSE),
     Field("ColumnFamily", "-", FALSE) >>

\* a type with two fields annotated with the same column name
Dup ==
  << Field("ColumnFamily", "dup", FALSE),
     Field("A", "x", FALSE),
     Field("B", "x", FALSE) >>

\* a reflect.Type is written as the name of the type
Types == {"Tweet", "User", "Point", "Plain", "Dash", "Dup"}

Fields(t) ==
  CASE t = "Tweet" -> Tweet
    [] t = "User" -> User
    [] t = "Point" -> Point
    [] t = "Plain" -> Plain
    [] t = "Dash" -> Dash
    [] t = "Dup" -> Dup
    [] OTHER -> <<>>

NumField(t) == Len(Fields(t))

ZeroType == ""

-----------------------------------------------------------------------------
(* entity.go: the struct codec *)

structTag(name, opts) == [name |-> name, opts |-> opts]
fieldCodec(index) == [index |-> index]

\* the zero value of structTag, as make([]structTag, n) fills it
ZeroTag == structTag("", "")

\* c = &structCodec{byIndex: make([]structTag, t.NumField()), byName: make(...)}
RECURSIVE ZeroTags(_)
ZeroTags(n) == IF n = 0 THEN <<>> ELSE Append(ZeroTags(n - 1), ZeroTag)

NewStructCodec(t) ==
  [columnFamily |-> "",
   byIndex |-> ZeroTags(NumField(t)),
   byName |-> <<>>,
   nrDBCols |-> 0]

\* name, opts of a field: the tag split at its first comma, an empty name
\* replaced by the field name unless the field is embedded
TagName(f) ==
  LET raw == f.Tag
      ii == Index(raw, ",")
      name == IF ii # -1 THEN SubSeq(raw, 1, ii) ELSE raw
  IN IF name = "" /\ ~f.Anonymous THEN f.Name ELSE name

TagOpts(f) ==
  LET raw == f.Tag
      ii == Index(raw, ",")
  IN IF ii # -1 THEN SubSeq(raw, ii + 2, Len(raw)) ELSE ""

\* Whether the loop body returns an error at field i (1-based)
FieldFails(t, i) ==
  LET f == Fields(t)[i]
  IN f.Name = "ColumnFamily" /\ TagName(f) \in {"", "-"}

\* One iteration of the loop over the fields that does not fail: what it
\* does to the codec c.  i is 1-based here, fieldCodec.index is 0-based.
FieldStep(c, t, i) ==
  LET f == Fields(t)[i]
      name0 == TagName(f)
      isCF == f.Name = "ColumnFamily"
      name == IF isCF THEN "-" ELSE name0
  IN [c EXCEPT !.columnFamily = IF isCF THEN name0 ELSE @,
               !.byIndex[i] = structTag(name, TagOpts(f)),
               !.byName = (name :> fieldCodec(i - 1)) @@ @]

\* ... and to the local counter nrDBCols
CountStep(nrDBCols, t, i) ==
  LET f == Fields(t)[i]
  IN IF f.Name # "ColumnFamily" /\ TagName(f) # "-"
       THEN nrDBCols + 1 ELSE nrDBCols

FieldError(t, i) ==
  NewError("datastore: name " \o TagName(Fields(t)[i]) \o " not allowed")

MissingError(t) ==
  NewError("datastore: ColumnFamily field missing in " \o t)

\* The loop of getStructCodecLocked from field i on, run to its end by one
\* goroutine: the codec, the counter and the error it ends with.
RECURSIVE LoopFrom(_, _, _, _)
LoopFrom(c, nrDBCols, t, i) ==
  IF i > NumField(t) THEN [c |-> c, nrDBCols |-> nrDBCols, err |-> nil]
  ELSE IF FieldFails(t, i)
    THEN [c |-> c, nrDBCols |-> nrDBCols, err |-> FieldError(t, i)]
  ELSE LoopFrom(FieldStep(c, t, i), CountStep(nrDBCols, t, i), t, i + 1)

\* getStructCodecLocked(t) as one uninterrupted call on the cache `cache`
\* and the heap `heap`.  A codec whose derivation fails is unreachable once
\* the call returns and is not kept on the heap.
getStructCodecLocked(cache, heap, t) ==
  IF cache[t] # 0
    THEN [cache |-> cache, heap |-> heap, ret |-> cache[t], err |-> nil]
  ELSE
    LET c == Len(heap) + 1
        r == LoopFrom(NewStructCodec(t), 0, t, 1)
    IN IF r.err # nil
         THEN [cache |-> cache, heap |-> heap, ret |-> 0, err |-> r.err]
       ELSE IF r.c.columnFamily = ""
         THEN [cache |-> cache, heap |-> heap,
               ret |-> 0, err |-> MissingError(t)]
       ELSE [cache |-> [cache EXCEPT ![t] = c],
             heap |-> Append(heap, [r.c EXCEPT !.nrDBCols = r.nrDBCols]),
             ret |-> c, err |-> nil]

getColumnStr(codec) ==
  LET kept == SelectSeq(codec.byIndex, LAMBDA v : v.name # "-")
      cols == [k \in 1..codec.nrDBCols |->
                 IF k <= Len(kept) THEN kept[k].name ELSE ""]
  IN Join(cols, ",")

-----------------------------------------------------------------------------
(* Go slices: a slice is a pointer to a backing array, a length and a      *)
(* capacity.  A backing array records the elements written so far.         *)

NilSlice == [ptr |-> 0, len |-> 0, cap |-> 0]

\* the elements a slice shows
Elems(ah, s) == IF s.ptr = 0 THEN <<>> ELSE SubSeq(ah[s.ptr], 1, s.len)

\* x = make([]T, len(s)); copy(x, s)
MakeCopy(ah, s) ==
  [ah |-> Append(ah, Elems(ah, s)),
   slice |-> [ptr |-> Len(ah) + 1, len |-> s.len, cap |-> s.len]]

\* append(s, e): in place when the capacity allows, else into a new array
\* of twice the capacity
AppendSlice(ah, s, e) ==
  IF s.len < s.cap
    THEN [ah |-> [ah EXCEPT ![s.ptr] =
                    IF s.len < Len(@) THEN [@ EXCEPT ![s.len + 1] = e]
                                      ELSE Append(@, e)],
          slice |-> [s EXCEPT !.len = s.len + 1]]
    ELSE [ah |-> Append(ah, Append(Elems(ah, s), e)),
          slice |-> [ptr |-> Len(ah) + 1, len |-> s.len + 1,
                     cap |-> IF s.cap = 0 THEN 1 ELSE 2 * s.cap]]

\* append([]string(nil), names...)
AppendAllToNil(ah, names) ==
  IF Len(names) = 0 THEN [ah |-> ah, slice |-> NilSlice]
  ELSE [ah |-> Append(ah, names),
        slice |-> [ptr |-> Len(ah) + 1, len |-> Len(names),
                   cap |-> Len(names)]]

-----------------------------------------------------------------------------
(* query.go *)

lessThan == 0
lessEq == 1
equal == 2
greaterEq == 3
greaterThan == 4

ascending == 0
descending == 1

\* A Go int is 64 bits wide and the model checker's integers are 32 bits
\* wide: an int argument is written as two limbs, hi * 65536 + lo with
\* lo in 0..65535, which reaches both sides of the int32 range.
Wide(hi, lo) == [hi |-> hi, lo |-> lo]
WideLess(a, b) == a.hi < b.hi \/ (a.hi = b.hi /\ a.lo < b.lo)

MinInt32 == Wide(-32768, 0)
MaxInt32 == Wide(32767, 65535)

\* int32(limit), for a limit inside the int32 range
ToInt32(a) == a.hi * 65536 + a.lo

filter(FieldName, Op, Value) ==
  [FieldName |-> FieldName, Op |-> Op, Value |-> Value]

order(FieldName, Direction) ==
  [FieldName |-> FieldName, Direction |-> Direction]

filterOpMapping ==
  (lessEq :> "<=") @@ (greaterEq :> ">=") @@ (lessThan :> "<")
    @@ (greaterThan :> ">") @@ (equal :> "=")

\* the filter expression: the field name, then the operator it maps to, -1
\* for a token that is none of the five
ParseFieldName(filterStr) == TrimRight(filterStr, {" ", ">", "<", "=", "!"})

ParseOpToken(filterStr) ==
  TrimSpace(SubSeq(filterStr, Len(ParseFieldName(filterStr)) + 1,
                   Len(filterStr)))

ParseOp(filterStr) ==
  LET op == ParseOpToken(filterStr)
  IN CASE op = "<=" -> lessEq
       [] op = ">=" -> greaterEq
       [] op = "<" -> lessThan
       [] op = ">" -> greaterThan
       [] op = "=" -> equal
       [] OTHER -> -1

\* getWhereClause: the filters from i on, conditions and args so far
RECURSIVE WhereLoop(_, _, _, _, _)
WhereLoop(codec, filters, i, conditions, args) ==
  IF i > Len(filters)
    THEN [cond |-> " WHERE " \o Join(conditions, " AND "),
          args |-> args, err |-> nil]
  ELSE IF filters[i].FieldName \notin DOMAIN codec.byName
    THEN [cond |-> "", args |-> args,
          err |-> NewError("query : fieldname " \o filters[i].FieldName
                             \o " not found")]
  ELSE WhereLoop(codec, filters, i + 1,
                 Append(conditions,
                        filters[i].FieldName \o " "
                          \o filterOpMapping[filters[i].Op] \o " ?"),
                 Append(args, filters[i].Value))

\* a getWhereClause that binds the values last filter first
getWhereClauseReversed(codec, filters) ==
  LET w == IF Len(filters) <= 0 THEN [cond |-> "", args |-> <<>>, err |-> nil]
           ELSE WhereLoop(codec, filters, 1, <<>>, <<>>)
  IN [w EXCEPT !.args = [i \in 1..Len(w.args) |-> w.args[Len(w.args) + 1 - i]]]

getWhereClause(codec, filters) ==
  IF Len(filters) <= 0 THEN [cond |-> "", args |-> <<>>, err |-> nil]
  ELSE WhereLoop(codec, filters, 1, <<>>, <<>>)

\* The heaps a builder call works on: qh the Query structs, ah the arrays.
\* A builder call returns the heaps it leaves and the pointer it returns.

NewQueryStruct(codec) ==
  [filter |-> NilSlice, order |-> NilSlice, projection |-> NilSlice,
   codec |-> codec, limit |-> -1, err |-> nil]

\* a clone that hands back the receiver instead of a copy
Query_cloneShared(S, q) == [qh |-> S.qh, ah |-> S.ah, ref |-> q]

Query_clone(S, q) ==
  LET x == S.qh[q]
      f == IF x.filter.len > 0 THEN MakeCopy(S.ah, x.filter)
           ELSE [ah |-> S.ah, slice |-> x.filter]
      o == IF x.order.len > 0 THEN MakeCopy(f.ah, x.order)
           ELSE [ah |-> f.ah, slice |-> x.order]
  IN [qh |-> Append(S.qh, [x EXCEPT !.filter = f.slice, !.order = o.slice]),
      ah |-> o.ah,
      ref |-> Len(S.qh) + 1]

Query_Filter(S, q, filterStr0, value) ==
  LET C == Query_clone(S, q)
      filterStr == TrimSpace(filterStr0)
      f == filter(ParseFieldName(filterStr), ParseOp(filterStr), value)
  IN IF Len(filterStr) < 1
       THEN [C EXCEPT !.qh[C.ref].err =
               NewError("datastore: invalid filter: " \o filterStr)]
     ELSE IF f.Op = -1
       THEN [C EXCEPT !.qh[C.ref].err =
               NewError("datastore: invalid operator "
                          \o Quote(ParseOpToken(filterStr))
                          \o " in filter " \o Quote(filterStr))]
     ELSE LET a == AppendSlice(C.ah, C.qh[C.ref].filter, f)
          IN [C EXCEPT !.ah = a.ah, !.qh[C.ref].filter = a.slice]

Query_Order(S, q, fieldName0) ==
  LET C == Query_clone(S, q)
      fieldName == TrimSpace(fieldName0)
      o == IF HasPrefix(fieldName, "-")
             THEN order(TrimSpace(SubSeq(fieldName, 2, Len(fieldName))),
                        descending)
             ELSE order(fieldName, ascending)
  IN IF ~HasPrefix(fieldName, "-") /\ HasPrefix(fieldName, "+")
       THEN [C EXCEPT !.qh[C.ref].err =
               NewError("datastore: invalid order: " \o Quote(fieldName))]
     ELSE IF Len(o.FieldName) = 0
       THEN [C EXCEPT !.qh[C.ref].err = NewError("datastore: empty order")]
     ELSE LET a == AppendSlice(C.ah, C.qh[C.ref].order, o)
          IN [C EXCEPT !.ah = a.ah, !.qh[C.ref].order = a.slice]

Query_Project(S, q, fieldNames) ==
  LET C == Query_clone(S, q)
      a == AppendAllToNil(C.ah, fieldNames)
  IN [C EXCEPT !.ah = a.ah, !.qh[C.ref].projection = a.slice]

\* a Limit without the range check: int32(limit) keeps the low 32 bits
Query_LimitUnchecked(S, q, limit) ==
  LET C == Query_clone(S, q)
  IN [C EXCEPT !.qh[C.ref].limit =
        (((limit.hi + 32768) % 65536) - 32768) * 65536 + limit.lo]

Query_Limit(S, q, limit) ==
  LET C == Query_clone(S, q)
  IN IF WideLess(limit, MinInt32) \/ WideLess(MaxInt32, limit)
       THEN [C EXCEPT !.qh[C.ref].err =
               NewError("datastore: query limit overflow")]
       ELSE [C EXCEPT !.qh[C.ref].limit = ToInt32(limit)]

\* a toCQL that renders the order entries
Query_toCQLOrdered(ch, ah, x) ==
  LET codec == ch[x.codec]
      columnStr == IF x.projection.len > 0
                     THEN Join(Elems(ah, x.projection), ",")
                     ELSE getColumnStr(codec)
      cql0 == "SELECT " \o columnStr \o " FROM " \o codec.columnFamily
      w == getWhereClause(codec, Elems(ah, x.filter))
      cql1 == cql0 \o w.cond
      cql2 == IF x.limit > 0 THEN cql1 \o " LIMIT " \o FormatInt(x.limit)
              ELSE cql1
      orders == [i \in 1..x.order.len |-> Elems(ah, x.order)[i].FieldName]
  IN IF w.err # nil THEN [cql |-> "", args |-> w.args, err |-> w.err]
     ELSE [cql |-> IF x.order.len > 0
                     THEN cql2 \o " ORDER BY " \o Join(orders, ",")
                     ELSE cql2,
           args |-> w.args, err |-> nil]

\* toCQL of the Query struct x, its slices read from the arrays ah
Query_toCQL(ch, ah, x) ==
  LET codec == ch[x.codec]
      columnStr == IF x.projection.len > 0
                     THEN Join(Elems(ah, x.projection), ",")
                     ELSE getColumnStr(codec)
      cql0 == "SELECT " \o columnStr \o " FROM " \o codec.columnFamily
      w == getWhereClause(codec, Elems(ah, x.filter))
      cql1 == cql0 \o w.cond
      cql2 == IF x.limit > 0 THEN cql1 \o " LIMIT " \o FormatInt(x.limit)
              ELSE cql1
  IN IF w.err # nil THEN [cql |-> "", args |-> w.args, err |-> w.err]
     ELSE [cql |-> cql2, args |-> w.args, err |-> nil]

-----------------------------------------------------------------------------
(* update_query.go *)

\* The heaps an UpdateQuery builder call works on: uh the UpdateQuery
\* structs, ah the arrays, mh the maps.

NewUpdateQueryStruct(codec, updates) ==
  [filter |-> NilSlice, ttl |-> 0, updates |-> updates, codec |-> codec,
   err |-> nil]

UpdateQuery_clone(S, u) ==
  LET x == S.uh[u]
      f == IF x.filter.len > 0 THEN MakeCopy(S.ah, x.filter)
           ELSE [ah |-> S.ah, slice |-> x.filter]
      copied == Cardinality(DOMAIN S.mh[x.updates]) > 0
  IN [uh |-> Append(S.uh,
                    [x EXCEPT !.filter = f.slice,
                              !.updates = IF copied THEN Len(S.mh) + 1
                                          ELSE @]),
      ah |-> f.ah,
      mh |-> IF copied THEN Append(S.mh, S.mh[x.updates]) ELSE S.mh,
      ref |-> Len(S.uh) + 1]

\* a Filter that does not trim the expression it is given
UpdateQuery_FilterUntrimmed(S, u, filterStr0, value) ==
  LET C == UpdateQuery_clone(S, u)
      f == filter(ParseFieldName(filterStr0), ParseOp(filterStr0), value)
  IN IF Len(filterStr0) < 1
       THEN [C EXCEPT !.uh[C.ref].err =
               NewError("datastore: invalid filter: " \o filterStr0)]
     ELSE IF f.Op = -1
       THEN [C EXCEPT !.uh[C.ref].err =
               NewError("datastore: invalid operator "
                          \o Quote(ParseOpToken(filterStr0))
                          \o " in filter " \o Quote(filterStr0))]
     ELSE LET a == AppendSlice(C.ah, C.uh[C.ref].filter, f)
          IN [C EXCEPT !.ah = a.ah, !.uh[C.ref].filter = a.slice]

UpdateQuery_Filter(S, u, filterStr0, value) ==
  LET C == UpdateQuery_clone(S, u)
      filterStr == TrimSpace(filterStr0)
      f == filter(ParseFieldName(filterStr), ParseOp(filterStr), value)
  IN IF Len(filterStr) < 1
       THEN [C EXCEPT !.uh[C.ref].err =
               NewError("datastore: invalid filter: " \o filterStr)]
     ELSE IF f.Op = -1
       THEN [C EXCEPT !.uh[C.ref].err =
               NewError("datastore: invalid operator "
                          \o Quote(ParseOpToken(filterStr))
                          \o " in filter " \o Quote(filterStr))]
     ELSE LET a == AppendSlice(C.ah, C.uh[C.ref].filter, f)
          IN [C EXCEPT !.ah = a.ah, !.uh[C.ref].filter = a.slice]

\* a TTL that returns a builder without the receiver's deferred error
UpdateQuery_TTLFresh(S, u, ttl) ==
  LET C == UpdateQuery_clone(S, u)
  IN [C EXCEPT !.uh[C.ref].ttl = ttl, !.uh[C.ref].err = nil]

UpdateQuery_TTL(S, u, ttl) ==
  LET C == UpdateQuery_clone(S, u)
  IN [C EXCEPT !.uh[C.ref].ttl = ttl]

\* an Update that keeps the value a column already has
UpdateQuery_UpdateKeepFirst(S, u, fieldName, fieldVal) ==
  LET C == UpdateQuery_clone(S, u)
  IN [C EXCEPT !.mh[C.uh[C.ref].updates] = @ @@ (fieldName :> fieldVal)]

UpdateQuery_Update(S, u, fieldName, fieldVal) ==
  LET C == UpdateQuery_clone(S, u)
  IN [C EXCEPT !.mh[C.uh[C.ref].updates] = (fieldName :> fieldVal) @@ @]

\* fmt.Sprint(str, n): the operands one after the other, no space between
\* them because one of them is a string; a verb in str is not interpreted
Sprint(str, n) == str \o FormatInt(n)

\* toCQL of the UpdateQuery struct x; keys is the order in which
\* `range q.updates` yields the keys of the map during this call
\* a toCQL that appends the assigned values in the opposite order
UpdateQuery_toCQLArgsReversed(ch, ah, mh, x, keys) ==
  LET codec == ch[x.codec]
      usingTTL == IF x.ttl > 0 THEN Sprint(" USING TTL %d ", x.ttl) ELSE " "
      cql0 == "UPDATE " \o codec.columnFamily \o usingTTL \o "SET "
      updates == [i \in 1..Len(keys) |-> keys[i] \o " = ?"]
      args == [i \in 1..Len(keys) |-> mh[x.updates][keys[Len(keys) + 1 - i]]]
      cql1 == IF Len(keys) > 0 THEN cql0 \o Join(updates, ", ") ELSE cql0
      w == getWhereClause(codec, Elems(ah, x.filter))
  IN IF w.err # nil THEN [cql |-> "", args |-> w.args, err |-> w.err]
     ELSE [cql |-> cql1 \o w.cond, args |-> args \o w.args, err |-> nil]

UpdateQuery_toCQL(ch, ah, mh, x, keys) ==
  LET codec == ch[x.codec]
      usingTTL == IF x.ttl > 0 THEN Sprint(" USING TTL %d ", x.ttl) ELSE " "
      cql0 == "UPDATE " \o codec.columnFamily \o usingTTL \o "SET "
      updates == [i \in 1..Len(keys) |-> keys[i] \o " = ?"]
      args == [i \in 1..Len(keys) |-> mh[x.updates][keys[i]]]
      cql1 == IF Len(keys) > 0 THEN cql0 \o Join(updates, ", ") ELSE cql0
      w == getWhereClause(codec, Elems(ah, x.filter))
  IN IF w.err # nil THEN [cql |-> "", args |-> w.args, err |-> w.err]
     ELSE [cql |-> cql1 \o w.cond, args |-> args \o w.args, err |-> nil]

\* the orders in which the keys of the map m can be iterated
KeyOrders(m) ==
  {ks \in [1..Cardinality(DOMAIN m) -> DOMAIN m] :
     \A i, j \in DOMAIN ks : i # j => ks[i] # ks[j]}

-----------------------------------------------------------------------------
(* The session: the keyspace the statements are executed against and the   *)
(* cursors (gocql.Iter) it hands out.  A table is a sequence of rows kept  *)
(* in key order; a row gives every column of the table a value.            *)

\* the tables of the keyspace: their columns and their key column
Schema ==
  [tweet |-> [columns |-> {"timeline", "id", "text"}, key |-> "id"],
   user |-> [columns |-> {"Age"}, key |-> "Age"],
   dup |-> [columns |-> {"x"}, key |-> "x"]]

\* str cut at every occurrence of the character ch, from position i on
\* with the current piece starting at position start
RECURSIVE SplitFrom(_, _, _, _)
SplitFrom(str, ch, i, start) ==
  IF i > Len(str) THEN <<SubSeq(str, start, Len(str))>>
  ELSE IF CharAt(str, i) = ch
    THEN <<SubSeq(str, start, i - 1)>> \o SplitFrom(str, ch, i + 1, i + 1)
  ELSE SplitFrom(str, ch, i + 1, start)

\* "(a,b)" read as the list a, b; <<>> for a word that is not in brackets
Bracketed(word) ==
  IF Len(word) >= 2 /\ CharAt(word, 1) = "(" /\ CharAt(word, Len(word)) = ")"
    THEN SplitFrom(SubSeq(word, 2, Len(word) - 1), ",", 1, 1)
    ELSE <<>>

\* the number a string of decimal digits denotes, -1 for any other string
RECURSIVE ParseUint(_)
ParseUint(str) ==
  IF Len(str) = 0 THEN -1
  ELSE LET high == IF Len(str) = 1 THEN 0
                   ELSE ParseUint(SubSeq(str, 1, Len(str) - 1))
           low == Index("0123456789", CharAt(str, Len(str)))
       IN IF high < 0 \/ low < 0 \/ high > 100000 THEN -1
          ELSE high * 10 + low

\* session.Query("INSERT INTO <table> (<columns>) VALUES (<?,...>)",
\* vals...).Exec(): the tables afterwards and the error.  The row written
\* replaces the row with its key or is placed where its key belongs.
ExecInsert(d, cql, vals) ==
  LET w == SplitFrom(cql, " ", 1, 1)
      table == w[3]
      columns == Bracketed(w[4])
      marks == Bracketed(w[6])
  IN IF \/ Len(w) # 6
        \/ <<w[1], w[2], w[5]>> # <<"INSERT", "INTO", "VALUES">>
        \/ columns = <<>> \/ marks = <<>>
       THEN [db |-> d, err |-> NewError("syntax error")]
     ELSE IF table \notin DOMAIN Schema
       THEN [db |-> d, err |-> NewError("unconfigured table " \o table)]
     ELSE IF \E k \in 1..Len(columns) :
               columns[k] \notin Schema[table].columns
       THEN [db |-> d, err |-> NewError("undefined column name")]
     ELSE IF \E i, j \in 1..Len(columns) : i # j /\ columns[i] = columns[j]
       THEN [db |-> d, err |-> NewError("duplicate column name")]
     ELSE IF Len(marks) # Len(columns) \/ Len(vals) # Len(columns)
             \/ \E k \in 1..Len(marks) : marks[k] # "?"
       THEN [db |-> d, err |-> NewError("unmatched column names/values")]
     ELSE IF \A k \in 1..Len(columns) : columns[k] # Schema[table].key
       THEN [db |-> d, err |-> NewError("missing key column")]
     ELSE LET key == Schema[table].key
              row == [c \in Schema[table].columns |->
                        vals[CHOOSE k \in 1..Len(columns) : columns[k] = c]]
          IN [db |-> [d EXCEPT ![table] =
                        SelectSeq(@, LAMBDA r : r[key] < row[key])
                          \o <<row>>
                          \o SelectSeq(@, LAMBDA r : r[key] > row[key])],
              err |-> nil]

\* the cursor of a statement that failed with err
FailedCursor(err) ==
  [columns |-> <<>>, rows |-> <<>>, pos |-> 0, err |-> err, closed |-> FALSE]

\* session.Query("SELECT <columns> FROM <table>[ WHERE <column> <op> ?
\* AND ...][ LIMIT <n>]", args...).Iter(): the cursor over the result
ExecSelect(d, cql, args) ==
  LET w == SplitFrom(cql, " ", 1, 1)
      columns == SplitFrom(w[2], ",", 1, 1)
      table == w[4]
      limited == Len(w) >= 6 /\ w[Len(w) - 1] = "LIMIT"
      limit == IF limited THEN ParseUint(w[Len(w)]) ELSE 0
      where == SubSeq(w, 5, IF limited THEN Len(w) - 2 ELSE Len(w))
      conds == [k \in 1..((Len(where) + 3) \div 4) |->
                  SubSeq(where, 4 * k - 3, 4 * k)]
  IN IF \/ Len(w) < 4
        \/ <<w[1], w[3]>> # <<"SELECT", "FROM">>
        \/ limit < 0
        \/ Len(where) % 4 # 0
        \/ \E k \in 1..Len(conds) :
             \/ conds[k][1] # (IF k = 1 THEN "WHERE" ELSE "AND")
             \/ conds[k][3] \notin {"<", "<=", "=", ">=", ">"}
             \/ conds[k][4] # "?"
       THEN FailedCursor(NewError("syntax error"))
     ELSE IF table \notin DOMAIN Schema
       THEN FailedCursor(NewError("unconfigured table " \o table))
     ELSE IF \E k \in 1..Len(columns) :
               columns[k] \notin Schema[table].columns
       THEN FailedCursor(NewError("undefined column name"))
     ELSE IF \E k \in 1..Len(conds) :
               conds[k][2] \notin Schema[table].columns
       THEN FailedCursor(NewError("undefined column name"))
     ELSE IF Len(args) # Len(conds)
       THEN FailedCursor(NewError("not enough args"))
     ELSE LET found == SelectSeq(d[table],
                         LAMBDA row :
                           \A k \in 1..Len(conds) :
                             LET a == row[conds[k][2]]
                                 op == conds[k][3]
                             IN CASE op = "<" -> a < args[k]
                                  [] op = "<=" -> a <= args[k]
                                  [] op = "=" -> a = args[k]
                                  [] op = ">=" -> a >= args[k]
                                  [] op = ">" -> a > args[k])
              rows == IF limit > 0 /\ Len(found) > limit
                        THEN SubSeq(found, 1, limit) ELSE found
          IN [columns |-> columns,
              rows |-> [i \in 1..Len(rows) |->
                          [n \in 1..Len(columns) |-> rows[i][columns[n]]]],
              pos |-> 0, err |-> nil, closed |-> FALSE]

\* iter.Close(): the cursor afterwards and the error it reports
Iter_Close(cur) == [cur |-> [cur EXCEPT !.closed = TRUE], err |-> cur.err]

\* cqlQ.Iter(): the cursor of a statement executed against the tables d.
\* The caller's cursor is kept as the statement and the tables it was
\* executed against, with how far it has been read, the error it has
\* recorded and whether it was closed; Opened is its result set.
Iter(cqlQuery, d) ==
  [cqlQuery |-> cqlQuery, db |-> d, pos |-> 0, err |-> nil,
   closed |-> FALSE]

Opened(c) ==
  LET x == ExecSelect(c.db, c.cqlQuery[1].cql, c.cqlQuery[1].args)
  IN [x EXCEPT !.pos = c.pos,
               !.err = IF c.err # nil THEN c.err ELSE @,
               !.closed = c.closed]

Kept(c, cur) ==
  [c EXCEPT !.pos = cur.pos, !.err = cur.err, !.closed = cur.closed]

-----------------------------------------------------------------------------
(* The caller of the Query builder: one action per exported call.          *)

\* the arguments the caller passes; the builders are made for the record
\* types that have a table name
TypeInputs == { "Tweet", "User" }
FilterInputs ==
  { <<"id =", 1>>, <<" timeline>= ", 2>>, <<"- <", 3>>, <<"id !=", 5>> }
OrderInputs == { "-timeline", "+id" }
ProjectInputs == { <<>>, <<"id", "timeline">>, <<"text">> }
\* MinInt32 - 1, -1, 0, 5 and MaxInt32 + 1
LimitInputs ==
  { Wide(-32769, 65535), Wide(-1, 65535), Wide(0, 0), Wide(0, 5),
    Wide(32768, 0) }

Call_(op, str, value, names, n) ==
  [op |-> op, str |-> str, value |-> value, names |-> names, n |-> n]

QS == [qh |-> queryHeap, ah |-> arrayHeap]

\* what a caller can observe of the Query q
QueryView(q) ==
  [filter |-> Elems(arrayHeap, queryHeap[q].filter),
   order |-> Elems(arrayHeap, queryHeap[q].order),
   projection |-> Elems(arrayHeap, queryHeap[q].projection),
   limit |-> queryHeap[q].limit,
   err |-> queryHeap[q].err]

\* the heaps and the history after the builder call `call` on q returned R
Returned(R, q, call) ==
  /\ queryHeap' = R.qh
  /\ arrayHeap' = R.ah
  /\ calls' = IF R.ref > Len(calls)
                THEN Append(calls, Append(calls[q], call))
                ELSE [calls EXCEPT ![R.ref] = Append(@, call)]
  /\ UNCHANGED <<codecVars, iterators, ran, newErr, updateVars, callerVars>>

NewQuery(t) ==
  /\ Len(queryHeap) < MaxQueries
  /\ LET r == getStructCodecLocked(structCodecs, codecHeap, t)
     IN /\ structCodecs' = r.cache
        /\ codecHeap' = r.heap
        /\ newErr' = r.err
        /\ IF r.err # nil
             THEN UNCHANGED <<queryHeap, calls>>
             ELSE /\ queryHeap' = Append(queryHeap, NewQueryStruct(r.ret))
                  /\ calls' = Append(calls, <<>>)
  /\ UNCHANGED <<structCodecsMutex, pc, frame, handedOut, arrayHeap,
                 iterators, ran, updateVars, callerVars>>

Filter(q, in) ==
  /\ Len(queryHeap) < MaxQueries
  /\ Returned(Query_Filter(QS, q, in[1], in[2]), q,
              Call_("Filter", in[1], in[2], <<>>, Wide(0, 0)))

Order(q, fieldName) ==
  /\ Len(queryHeap) < MaxQueries
  /\ Returned(Query_Order(QS, q, fieldName), q,
              Call_("Order", fieldName, 0, <<>>, Wide(0, 0)))

Project(q, fieldNames) ==
  /\ Len(queryHeap) < MaxQueries
  /\ Returned(Query_Project(QS, q, fieldNames), q,
              Call_("Project", "", 0, fieldNames, Wide(0, 0)))

Limit(q, limit) ==
  /\ Len(queryHeap) < MaxQueries
  /\ Returned(Query_Limit(QS, q, limit), q,
              Call_("Limit", "", 0, <<>>, limit))

\* the zero values of *gocql.Query and *gocql.Iter, and what
\* session.Query(cql, args...) and cqlQ.Iter() return
NoQuery == <<>>
NoIter == 0
SessionQuery(cql, args) == <<[cql |-> cql, args |-> args]>>
OpenIter == 1

\* what a Next or Close call on the Iterator returned (op: the call, none
\* when op is ""), at which position of the cursor, and what its scan did
Returns(op, err, pos, scan) ==
  [op |-> op, err |-> err, pos |-> pos, scan |-> scan]

\* Query.Run: compile, and on success hand the statement to the driver.
\* The caller keeps the Iterator in its one variable iter, as
\* example/main.go does, so a later Run replaces the earlier Iterator.
Run(q) ==
  /\ \E r \in {Query_toCQL(codecHeap, arrayHeap, queryHeap[q])} :
       /\ ran' = <<[q |-> q, r |-> r, read |-> QueryView(q)]>>
       /\ iterators' =
            IF r.err # nil
              THEN <<[q |-> 0, iter |-> NoIter, cql |-> "",
                      cqlQuery |-> NoQuery, err |-> r.err]>>
              ELSE <<[q |-> q, iter |-> OpenIter, cql |-> r.cql,
                      cqlQuery |-> SessionQuery(r.cql, r.args),
                      err |-> nil]>>
       /\ cursor' = IF r.err # nil THEN Iter(NoQuery, <<>>)
                    ELSE Iter(SessionQuery(r.cql, r.args), db)
       /\ ret' = Returns("", nil, 0, "")
  /\ UNCHANGED <<codecVars, queryHeap, arrayHeap, calls, newErr, updateVars,
                 db, dst, saves, firsts, explicit>>

-----------------------------------------------------------------------------
(* The caller of the UpdateQuery builder *)

UpdateFilterInputs == { <<"id =", 1>>, <<"nofield >", 2>>, <<"id !=", 3>> }
TTLInputs == { -1, 0, 120 }
UpdateInputs == { <<"text", 1>>, <<"text", 2>>, <<"timeline", 3>> }

US == [uh |-> updateHeap, ah |-> arrayHeap, mh |-> mapHeap]

\* what a caller can observe of the UpdateQuery u
UpdateView(u) ==
  [filter |-> Elems(arrayHeap, updateHeap[u].filter),
   ttl |-> updateHeap[u].ttl,
   updates |-> mapHeap[updateHeap[u].updates],
   err |-> updateHeap[u].err]

UReturned(R, u, call) ==
  /\ updateHeap' = R.uh
  /\ arrayHeap' = R.ah
  /\ mapHeap' = R.mh
  /\ ucalls' = IF R.ref > Len(ucalls)
                 THEN Append(ucalls, Append(ucalls[u], call))
                 ELSE [ucalls EXCEPT ![R.ref] = Append(@, call)]
  /\ UNCHANGED <<codecVars, queryHeap, calls, iterators, ran, newErr,
                 cqlResults, callerVars>>

NewUpdateQuery(t) ==
  /\ Len(updateHeap) < MaxUpdates
  /\ LET r == getStructCodecLocked(structCodecs, codecHeap, t)
     IN /\ structCodecs' = r.cache
        /\ codecHeap' = r.heap
        /\ newErr' = r.err
        /\ IF r.err # nil
             THEN UNCHANGED <<updateHeap, mapHeap, ucalls>>
             ELSE /\ updateHeap' =
                       Append(updateHeap,
                              NewUpdateQueryStruct(r.ret, Len(mapHeap) + 1))
                  /\ mapHeap' = Append(mapHeap, <<>>)
                  /\ ucalls' = Append(ucalls, <<>>)
  /\ UNCHANGED <<structCodecsMutex, pc, frame, handedOut, queryHeap,
                 arrayHeap, calls, iterators, ran, cqlResults, callerVars>>

UFilter(u, in) ==
  /\ Len(updateHeap) < MaxUpdates
  /\ UReturned(UpdateQuery_Filter(US, u, in[1], in[2]), u,
               Call_("Filter", in[1], in[2], <<>>, 0))

TTL(u, ttl) ==
  /\ Len(updateHeap) < MaxUpdates
  /\ UReturned(UpdateQuery_TTL(US, u, ttl), u,
               Call_("TTL", "", 0, <<>>, ttl))

Update(u, in) ==
  /\ Len(updateHeap) < MaxUpdates
  /\ UReturned(UpdateQuery_Update(US, u, in[1], in[2]), u,
               Call_("Update", in[1], in[2], <<>>, 0))

\* UpdateQuery.CQL: compile, return the statement and the error.  The
\* caller keeps the result of its latest CQL or Run call.
CQL(u) ==
  /\ \E keys \in KeyOrders(mapHeap[updateHeap[u].updates]) :
       cqlResults' =
         <<[u |-> u, keys |-> keys, read |-> UpdateView(u),
            r |-> UpdateQuery_toCQL(codecHeap, arrayHeap, mapHeap,
                                    updateHeap[u], keys),
            cqlQ |-> NoQuery]>>
  /\ UNCHANGED <<codecVars, queryVars, updateHeap, mapHeap, ucalls,
                 callerVars>>

\* UpdateQuery.Run: compile, and on success execute through the driver
URun(u) ==
  /\ \E keys \in KeyOrders(mapHeap[updateHeap[u].updates]) :
     \E r \in {UpdateQuery_toCQL(codecHeap, arrayHeap, mapHeap,
                                 updateHeap[u], keys)} :
       cqlResults' =
         <<[u |-> u, keys |-> keys, read |-> UpdateView(u), r |-> r,
            cqlQ |-> IF r.err # nil THEN NoQuery
                     ELSE SessionQuery(r.cql, r.args)]>>
  /\ UNCHANGED <<codecVars, queryVars, updateHeap, mapHeap, ucalls,
                 callerVars>>

NextUpdate ==
  \/ \E t \in TypeInputs : NewUpdateQuery(t)
  \/ \E u \in 1..Len(updateHeap), in \in UpdateFilterInputs : UFilter(u, in)
  \/ \E u \in 1..Len(updateHeap), ttl \in TTLInputs : TTL(u, ttl)
  \/ \E u \in 1..Len(updateHeap), in \in UpdateInputs : Update(u, in)
  \/ \E u \in 1..Len(updateHeap) : CQL(u)
  \/ \E u \in 1..Len(updateHeap) : URun(u)

-----------------------------------------------------------------------------
(* getStructCodec, one goroutine per element of Procs.  Each action is one  *)
(* step of the call; the steps between Lock and Unlock run under the mutex. *)

ZeroFrame == [ret |-> 0, i |-> 0, t |-> ZeroType, nrDBCols |-> 0, c |-> 0,
              err |-> nil]

\* goroutines that have entered getStructCodec and may still allocate
InFlight == Cardinality({p \in Procs : pc[p] \in {"lock", "lookup"}})

\* the record types the goroutines ask for
CodecInputs == {"Tweet", "User", "Point", "Dash"}

\* a caller invokes getStructCodec(t)
Call(p, t) ==
  /\ pc[p] = "idle"
  /\ Len(codecHeap) + InFlight < MaxCodecs
  /\ pc' = [pc EXCEPT ![p] = "lock"]
  /\ frame' = [frame EXCEPT ![p] = [ZeroFrame EXCEPT !.t = t]]
  /\ UNCHANGED <<structCodecs, codecHeap, structCodecsMutex, handedOut, queryVars, updateVars,
                 callerVars>>

\* a Lock that does not wait for the holder to unlock
LockNoWait(p) ==
  /\ pc[p] = "lock"
  /\ structCodecsMutex' = p
  /\ pc' = [pc EXCEPT ![p] = "lookup"]
  /\ UNCHANGED <<structCodecs, codecHeap, frame, handedOut, queryVars, updateVars,
                 callerVars>>

\* structCodecsMutex.Lock()
Lock(p) ==
  /\ pc[p] = "lock"
  /\ structCodecsMutex = 0
  /\ structCodecsMutex' = p
  /\ pc' = [pc EXCEPT ![p] = "lookup"]
  /\ UNCHANGED <<structCodecs, codecHeap, frame, handedOut, queryVars, updateVars,
                 callerVars>>

\* c, ok := structCodecs[t]; a hit returns c, a miss allocates the codec
\* and stores it in the cache before it is filled in
Lookup(p) ==
  /\ pc[p] = "lookup"
  /\ LET t == frame[p].t
     IN IF structCodecs[t] # 0
          THEN /\ frame' = [frame EXCEPT ![p].ret = structCodecs[t],
                                         ![p].err = nil]
               /\ pc' = [pc EXCEPT ![p] = "unlock"]
               /\ UNCHANGED <<structCodecs, codecHeap>>
          ELSE /\ codecHeap' = Append(codecHeap, NewStructCodec(t))
               /\ structCodecs' = [structCodecs EXCEPT ![t] = Len(codecHeap) + 1]
               /\ frame' = [frame EXCEPT ![p].c = Len(codecHeap) + 1,
                                         ![p].i = 1]
               /\ pc' = [pc EXCEPT ![p] = "loop"]
  /\ UNCHANGED <<structCodecsMutex, handedOut, queryVars, updateVars,
                 callerVars>>

\* one iteration of `for i := range c.byIndex`
LoopField(p) ==
  /\ pc[p] = "loop"
  /\ frame[p].i <= NumField(frame[p].t)
  /\ LET t == frame[p].t
         i == frame[p].i
         c == frame[p].c
     IN IF FieldFails(t, i)
          THEN /\ frame' = [frame EXCEPT ![p].ret = 0,
                                         ![p].err = FieldError(t, i)]
               /\ pc' = [pc EXCEPT ![p] = "defer"]
               /\ UNCHANGED codecHeap
          ELSE /\ codecHeap' = [codecHeap EXCEPT ![c] = FieldStep(@, t, i)]
               /\ frame' = [frame EXCEPT
                              ![p].i = i + 1,
                              ![p].nrDBCols = CountStep(@, t, i)]
               /\ UNCHANGED pc
  /\ UNCHANGED <<structCodecs, structCodecsMutex, handedOut, queryVars, updateVars,
                 callerVars>>

\* after the loop: the columnFamily check, c.nrDBCols = nrDBCols, return c
AfterLoop(p) ==
  /\ pc[p] = "loop"
  /\ frame[p].i > NumField(frame[p].t)
  /\ LET t == frame[p].t
         c == frame[p].c
     IN IF codecHeap[c].columnFamily = ""
          THEN /\ frame' = [frame EXCEPT ![p].ret = 0,
                                         ![p].err = MissingError(t)]
               /\ UNCHANGED codecHeap
          ELSE /\ codecHeap' = [codecHeap EXCEPT
                                  ![c].nrDBCols = frame[p].nrDBCols]
               /\ frame' = [frame EXCEPT ![p].ret = c, ![p].err = nil]
  /\ pc' = [pc EXCEPT ![p] = "defer"]
  /\ UNCHANGED <<structCodecs, structCodecsMutex, handedOut, queryVars, updateVars,
                 callerVars>>

\* a deferred function that leaves the entry of a failed derivation
DeferredKeep(p) ==
  /\ pc[p] = "defer"
  /\ pc' = [pc EXCEPT ![p] = "unlock"]
  /\ UNCHANGED <<structCodecs, codecHeap, structCodecsMutex, frame, handedOut,
                 queryVars, updateVars, callerVars>>

\* defer func() { if err != nil { delete(structCodecs, t) } }()
Deferred(p) ==
  /\ pc[p] = "defer"
  /\ structCodecs' = IF frame[p].err # nil
                       THEN [structCodecs EXCEPT ![frame[p].t] = 0]
                       ELSE structCodecs
  /\ pc' = [pc EXCEPT ![p] = "unlock"]
  /\ UNCHANGED <<codecHeap, structCodecsMutex, frame, handedOut, queryVars, updateVars,
                 callerVars>>

\* defer structCodecsMutex.Unlock(): the caller now holds (ret, err)
Unlock(p) ==
  /\ pc[p] = "unlock"
  /\ structCodecsMutex' = 0
  /\ pc' = [pc EXCEPT ![p] = "returned"]
  /\ handedOut' = IF frame[p].err = nil
                    THEN [handedOut EXCEPT ![frame[p].t] = @ \cup {frame[p].ret}]
                    ELSE handedOut
  /\ UNCHANGED <<structCodecs, codecHeap, frame, queryVars, updateVars,
                 callerVars>>

\* the caller goes on and may call again
Return(p) ==
  /\ pc[p] = "returned"
  /\ pc' = [pc EXCEPT ![p] = "idle"]
  /\ frame' = [frame EXCEPT ![p] = ZeroFrame]
  /\ UNCHANGED <<structCodecs, codecHeap, structCodecsMutex, handedOut, queryVars, updateVars,
                 callerVars>>

-----------------------------------------------------------------------------
(* entity.go: loading and saving records.  A record handed to the library  *)
(* (an interface{} value) is the name of its type, whether it is passed as *)
(* a pointer, and the values of its fields in declaration order.           *)

Record(t, ptr, v) == [t |-> t, v |-> v, ptr |-> ptr]

Done == NewError("datastore: query has no more results")

\* the runtime panic of a method call through a nil *gocql.Iter
NilDereference ==
  NewError("panic: invalid memory address or nil pointer dereference")

newStructCLS(cache, heap, p) ==
  IF ~p.ptr
    THEN [cache |-> cache, heap |-> heap, codec |-> 0,
          err |-> NewError("invalid entity type")]
  ELSE LET r == getStructCodecLocked(cache, heap, p.t)
       IN [cache |-> r.cache, heap |-> r.heap, codec |-> r.ret,
           err |-> r.err]

\* rowData.Values bound to the fields of v that the columns name, and
\* iter.Scan(rowData.Values...): it reads the next row into them, and reads
\* none when the cursor has an error, at the end of the rows, or when a
\* value cannot be unmarshalled (fault: the error the driver then records)
Iter_Scan(codec, v, cur, fault) ==
  IF cur.err # nil \/ cur.pos >= Len(cur.rows)
    THEN [ok |-> FALSE, cur |-> cur, v |-> v]
  ELSE IF fault # nil
    THEN [ok |-> FALSE, cur |-> [cur EXCEPT !.err = fault], v |-> v]
  ELSE [ok |-> TRUE, cur |-> [cur EXCEPT !.pos = @ + 1],
        v |-> [i \in 1..Len(v) |->
                 IF \E k \in 1..Len(cur.columns) :
                      /\ cur.columns[k] \in DOMAIN codec.byName
                      /\ codec.byName[cur.columns[k]].index = i - 1
                   THEN cur.rows[cur.pos + 1]
                          [CHOOSE k \in 1..Len(cur.columns) :
                             /\ cur.columns[k] \in DOMAIN codec.byName
                             /\ codec.byName[cur.columns[k]].index = i - 1
                             /\ \A j \in (k + 1)..Len(cur.columns) :
                                  ~(/\ cur.columns[j] \in DOMAIN codec.byName
                                    /\ codec.byName[cur.columns[j]].index
                                         = i - 1)]
                   ELSE v[i]]]

\* a Load that reports the end of the results whatever Close returns
structCLS_LoadAlwaysDone(codec, v, cur, fault) ==
  IF cur.err # nil
    THEN [err |-> cur.err, cur |-> cur, v |-> v, scan |-> "not called"]
  ELSE CHOOSE r \in
         { IF s.ok
             THEN [err |-> nil, cur |-> s.cur, v |-> s.v, scan |-> "row"]
             ELSE LET c == Iter_Close(s.cur)
                  IN [err |-> Done, cur |-> c.cur, v |-> s.v,
                      scan |-> "no row"] :
           s \in {Iter_Scan(codec, v, cur, fault)} } : TRUE

\* structCLS.Load: iter.RowData() returns the cursor's error if it has
\* one; when Scan reads no row the cursor is closed, and the error of
\* Close, or else Done, is returned.  (s is the one outcome of the scan.)
structCLS_Load(codec, v, cur, fault) ==
  IF cur.err # nil
    THEN [err |-> cur.err, cur |-> cur, v |-> v, scan |-> "not called"]
  ELSE CHOOSE r \in
         { IF s.ok
             THEN [err |-> nil, cur |-> s.cur, v |-> s.v, scan |-> "row"]
             ELSE LET c == Iter_Close(s.cur)
                  IN [err |-> IF c.err # nil THEN c.err ELSE Done,
                      cur |-> c.cur, v |-> s.v, scan |-> "no row"] :
           s \in {Iter_Scan(codec, v, cur, fault)} } : TRUE

\* a LoadEntity that starts one row further on
LoadEntityAhead(cache, heap, p, cur, fault) ==
  CHOOSE r \in
    { IF x.err # nil
        THEN [cache |-> x.cache, heap |-> x.heap, err |-> x.err,
              cur |-> cur, v |-> p.v, scan |-> "not called"]
        ELSE LET l == structCLS_Load(x.heap[x.codec], p.v,
                                     [cur EXCEPT !.pos = @ + 1], fault)
             IN [cache |-> x.cache, heap |-> x.heap, err |-> l.err,
                 cur |-> l.cur, v |-> l.v, scan |-> l.scan] :
      x \in {newStructCLS(cache, heap, p)} } : TRUE

\* LoadEntity(dst, iter) for a cursor that is not nil.  (x is the one
\* result of newStructCLS.)
LoadEntity(cache, heap, p, cur, fault) ==
  CHOOSE r \in
    { IF x.err # nil
        THEN [cache |-> x.cache, heap |-> x.heap, err |-> x.err,
              cur |-> cur, v |-> p.v, scan |-> "not called"]
        ELSE LET l == structCLS_Load(x.heap[x.codec], p.v, cur, fault)
             IN [cache |-> x.cache, heap |-> x.heap, err |-> l.err,
                 cur |-> l.cur, v |-> l.v, scan |-> l.scan] :
      x \in {newStructCLS(cache, heap, p)} } : TRUE

\* a save that binds the fields in declaration order
structCLS_savePositional(codec, v) ==
  LET kept == SelectSeq(codec.byIndex, LAMBDA tag : tag.name # "-")
      qqs == [k \in 1..codec.nrDBCols |-> "?"]
  IN [cql |-> "INSERT INTO " \o codec.columnFamily \o " ("
                \o getColumnStr(codec) \o ") VALUES (" \o Join(qqs, ",")
                \o ")",
      vals |-> [k \in 1..codec.nrDBCols |-> v[k]]]

\* structCLS.save up to the driver call: the statement and its values
structCLS_save(codec, v) ==
  LET kept == SelectSeq(codec.byIndex, LAMBDA tag : tag.name # "-")
      qqs == [k \in 1..codec.nrDBCols |-> "?"]
  IN [cql |-> "INSERT INTO " \o codec.columnFamily \o " ("
                \o getColumnStr(codec) \o ") VALUES (" \o Join(qqs, ",")
                \o ")",
      vals |-> [k \in 1..codec.nrDBCols |->
                  v[codec.byName[kept[k].name].index + 1]]]

-----------------------------------------------------------------------------
(* The caller of SaveEntity, Run, Next, Close and First *)

\* SaveEntity(session, src)
SaveEntity(src) ==
  /\ structCodecsMutex = 0
  /\ \E x \in {newStructCLS(structCodecs, codecHeap, src)} :
       /\ structCodecs' = x.cache
       /\ codecHeap' = x.heap
       /\ IF x.err # nil
            THEN /\ saves' = <<[src |-> src, cql |-> "", vals |-> <<>>,
                                err |-> x.err, before |-> db]>>
                 /\ UNCHANGED db
            ELSE \E s \in {structCLS_save(x.heap[x.codec], src.v)} :
                 \E e \in {ExecInsert(db, s.cql, s.vals)} :
                   /\ saves' = <<[src |-> src, cql |-> s.cql,
                                  vals |-> s.vals, err |-> e.err,
                                  before |-> db]>>
                   /\ db' = e.db
  /\ UNCHANGED <<structCodecsMutex, pc, frame, handedOut, queryVars,
                 updateVars, cursor, dst, ret, firsts, explicit>>

\* err := iter.Next(p), on the Iterator the caller holds
Iterator_Next(p, fault) ==
  /\ Len(iterators) = 1
  /\ structCodecsMutex = 0
  /\ \E x \in {newStructCLS(structCodecs, codecHeap, p)} :
       /\ structCodecs' = x.cache
       /\ codecHeap' = x.heap
       /\ IF x.err # nil
            THEN /\ ret' = Returns("Next", x.err, cursor.pos, "not called")
                 /\ dst' = p
                 /\ UNCHANGED cursor
          ELSE IF iterators[1].iter = NoIter
            THEN /\ ret' = Returns("Next", NilDereference, 0, "not called")
                 /\ dst' = p
                 /\ UNCHANGED cursor
            ELSE \E cur \in {Opened(cursor)} :
                 \E l \in {LoadEntity(structCodecs, codecHeap, p, cur,
                                      fault)} :
                   /\ ret' = Returns("Next", l.err, cursor.pos, l.scan)
                   /\ dst' = [p EXCEPT !.v = l.v]
                   /\ cursor' = Kept(cursor, l.cur)
  /\ UNCHANGED <<structCodecsMutex, pc, frame, handedOut, queryVars,
                 updateVars, db, saves, firsts, explicit>>

\* err := iter.Close()
Iterator_Close ==
  /\ Len(iterators) = 1
  /\ IF iterators[1].iter = NoIter
       THEN /\ ret' = Returns("Close", NilDereference, 0, "not called")
            /\ UNCHANGED cursor
       ELSE \E c \in {Iter_Close(Opened(cursor))} :
              /\ ret' = Returns("Close", c.err, cursor.pos, "not called")
              /\ cursor' = Kept(cursor, c.cur)
  /\ UNCHANGED <<codecVars, queryVars, updateVars, db, dst, saves, firsts,
                 explicit>>

NotCalled == NewError("not called")

\* err := q.First(session, p)
First(q, p, fault) ==
  /\ structCodecsMutex = 0
  /\ \E r \in {Query_toCQL(codecHeap, arrayHeap, queryHeap[q])} :
       IF r.err # nil
         THEN /\ firsts' = <<[q |-> q, compile |-> r.err, next |-> NotCalled,
                              close |-> NotCalled, scan |-> "not called",
                              ret |-> r.err]>>
              /\ dst' = p
              /\ UNCHANGED <<structCodecs, codecHeap>>
         ELSE \E iter \in {ExecSelect(db, r.cql, r.args)} :
              \E l \in {LoadEntity(structCodecs, codecHeap, p, iter,
                                   fault)} :
              \E c \in {Iter_Close(l.cur)} :
                /\ firsts' = <<[q |-> q, compile |-> nil, next |-> l.err,
                                close |-> c.err, scan |-> l.scan,
                                ret |-> c.err]>>
                /\ dst' = [p EXCEPT !.v = l.v]
                /\ structCodecs' = l.cache
                /\ codecHeap' = l.heap
  /\ UNCHANGED <<structCodecsMutex, pc, frame, handedOut, queryVars,
                 updateVars, db, cursor, ret, saves, explicit>>

\* query.go, the entry point that takes the table name: the Query it
\* returns, and the statement Run compiles from it, whose columns are the
\* names of all the fields of the descriptor
NewQueryKind(kind, p) ==
  /\ explicit' =
       IF ~p.ptr
         THEN <<[kind |-> "", cls |-> ZeroType, limit |-> 0,
                 err |-> NewError("invalid entity type"), cql |-> ""]>>
         ELSE <<[kind |-> kind, cls |-> p.t, limit |-> -1, err |-> nil,
                 cql |-> ""]>>
  /\ UNCHANGED <<codecVars, queryVars, updateVars, db, cursor, dst, ret,
                 saves, firsts>>

RunKind ==
  /\ Len(explicit) = 1
  /\ explicit[1].err = nil
  /\ explicit' =
       <<[explicit[1] EXCEPT
            !.cql = "SELECT "
                      \o Join([i \in 1..NumField(explicit[1].cls) |->
                                 TagName(Fields(explicit[1].cls)[i])], ",")
                      \o " FROM " \o explicit[1].kind]>>
  /\ UNCHANGED <<codecVars, queryVars, updateVars, db, cursor, dst, ret,
                 saves, firsts>>

InitCaller ==
  /\ db = [table \in DOMAIN Schema |-> <<>>]
  /\ cursor = Iter(NoQuery, <<>>)
  /\ dst = Record(ZeroType, FALSE, <<>>)
  /\ ret = Returns("", nil, 0, "")
  /\ saves = <<>>
  /\ firsts = <<>>
  /\ explicit = <<>>

InitCodec ==
  /\ structCodecs = [t \in Types |-> 0]
  /\ codecHeap = <<>>
  /\ structCodecsMutex = 0
  /\ pc = [p \in Procs |-> "idle"]
  /\ frame = [p \in Procs |-> ZeroFrame]
  /\ handedOut = [t \in Types |-> {}]

InitQuery ==
  /\ queryHeap = <<>>
  /\ arrayHeap = <<>>
  /\ calls = <<>>
  /\ iterators = <<>>
  /\ ran = <<>>
  /\ newErr = nil

InitUpdate ==
  /\ updateHeap = <<>>
  /\ mapHeap = <<>>
  /\ ucalls = <<>>
  /\ cqlResults = <<>>

Init == InitCodec /\ InitQuery /\ InitUpdate /\ InitCaller

vars == <<codecVars, queryVars, updateVars, callerVars>>

Next ==
  \/ \E t \in TypeInputs : NewQuery(t)
  \/ \E q \in 1..Len(queryHeap), in \in FilterInputs : Filter(q, in)
  \/ \E q \in 1..Len(queryHeap), fieldName \in OrderInputs :
       Order(q, fieldName)
  \/ \E q \in 1..Len(queryHeap), fieldNames \in ProjectInputs :
       Project(q, fieldNames)
  \/ \E q \in 1..Len(queryHeap), limit \in LimitInputs : Limit(q, limit)
  \/ \E q \in 1..Len(queryHeap) : Run(q)

Spec == Init /\ [][Next]_vars

SpecUpdate == Init /\ [][NextUpdate]_vars

NextCodec ==
  \/ \E p \in Procs, t \in CodecInputs : Call(p, t)
  \/ \E p \in Procs : Lock(p)
  \/ \E p \in Procs : Lookup(p)
  \/ \E p \in Procs : LoopField(p)
  \/ \E p \in Procs : AfterLoop(p)
  \/ \E p \in Procs : Deferred(p)
  \/ \E p \in Procs : Unlock(p)
  \/ \E p \in Procs : Return(p)

SpecCodec == Init /\ [][NextCodec]_vars

-----------------------------------------------------------------------------
(* C4 *)

\* every field of t has its entry in c, the table name and the column count
\* are set
FullyBuilt(c, t) ==
  /\ c.columnFamily # ""
  /\ Len(c.byIndex) = NumField(t)
  /\ \A i \in 1..NumField(t) :
       /\ c.byIndex[i].name \in DOMAIN c.byName
       /\ c.byIndex[i].name = "" => Fields(t)[i].Anonymous
  /\ c.nrDBCols =
       Cardinality({i \in 1..NumField(t) : c.byIndex[i].name # "-"})

\* C4: under any interleaving of getStructCodec calls, all callers of one
\* type receive the same single codec instance, which is the cached one, is
\* fully built when it is received and stays so; a later call returns it
\* again instead of building a second one.
C4_OneSharedCodec ==
  /\ \A t \in Types :
       /\ Cardinality(handedOut[t]) <= 1
       /\ \A c \in handedOut[t] :
            /\ c # 0
            /\ structCodecs[t] = c
            /\ FullyBuilt(codecHeap[c], t)
  /\ \A p \in Procs :
       pc[p] = "returned" /\ frame[p].err = nil =>
         /\ frame[p].ret \in handedOut[frame[p].t]
         /\ \A u \in Types \ {frame[p].t} : frame[p].ret \notin handedOut[u]

\* two goroutines hold the result of a call for the same type, one of them
\* having built the codec and the other having found it in the cache
C4_Witness ==
  \E p, q \in Procs :
    /\ p # q
    /\ pc[p] = "returned" /\ pc[q] = "returned"
    /\ frame[p].t = frame[q].t
    /\ frame[p].err = nil /\ frame[q].err = nil
    /\ frame[p].c # 0 /\ frame[q].c = 0
    /\ frame[p].ret = frame[q].ret

-----------------------------------------------------------------------------
(* Reading the state of the Query builder *)

Compiled(q) == Query_toCQL(codecHeap, arrayHeap, queryHeap[q])

\* the record type q was constructed for
TypeOfQuery(q) == CHOOSE t \in Types : structCodecs[t] = queryHeap[q].codec

\* s occurs in str / str ends with s
Occurs(s, str) ==
  \E i \in 1..(Len(str) - Len(s) + 1) : SubSeq(str, i, i + Len(s) - 1) = s

EndsWith(str, s) ==
  Len(str) >= Len(s) /\ SubSeq(str, Len(str) - Len(s) + 1, Len(str)) = s

-----------------------------------------------------------------------------
(* C1 *)

\* C1: a Query that carries a deferred error compiles to that error and to
\* no statement text, and no Iterator obtained from it reached the driver.
C1_DeferredErrorFirst ==
  /\ \A q \in 1..Len(queryHeap) :
       queryHeap[q].err # nil =>
         /\ Compiled(q).err = queryHeap[q].err
         /\ Compiled(q).cql = ""
  /\ \A i \in 1..Len(iterators) :
       iterators[i].iter # NoIter => queryHeap[iterators[i].q].err = nil

-----------------------------------------------------------------------------
(* C2 *)

\* C2: no builder call changes the filters, orders, projection, limit or
\* deferred error of any Query that already exists, be it the receiver, an
\* ancestor or a sibling branch; and a Query that was compiled by Run
\* compiles to the same statement and arguments after any further calls.
C2_QueryNeverMutated ==
  /\ [][\A q \in 1..Len(queryHeap) : QueryView(q)' = QueryView(q)]_vars
  /\ [](\A k \in 1..Len(ran) : Compiled(ran[k].q) = ran[k].r)

\* Run compiled a Query with one filter, and afterwards a Query with a
\* second filter was derived from it
C2_Witness ==
  \E k \in 1..Len(ran), d \in 1..Len(queryHeap) :
    /\ d > ran[k].q
    /\ Len(calls[d]) = Len(calls[ran[k].q]) + 1
    /\ SubSeq(calls[d], 1, Len(calls[ran[k].q])) = calls[ran[k].q]
    /\ Len(QueryView(ran[k].q).filter) = 1
    /\ Len(QueryView(d).filter) = 2
    /\ ran[k].r.args = <<QueryView(d).filter[1].Value>>

-----------------------------------------------------------------------------
(* The builder calls as the caller wrote them *)

FiveOps == {"<", "<=", "=", ">=", ">"}

\* The trimmed expression e reads as a field name, optional spaces and one
\* of the five operators exactly when it splits so after i characters.
SplitsAt(e, i) ==
  LET f == SubSeq(e, 1, i)
      rest == SubSeq(e, i + 1, Len(e))
  IN /\ f = "" \/ CharAt(f, Len(f)) \notin {" ", "<", ">", "=", "!"}
     /\ TrimLeftSet(rest, {" "}) \in FiveOps

WellFormed(str) ==
  \E i \in 0..Len(TrimSpace(str)) : SplitsAt(TrimSpace(str), i)

WrittenField(str) ==
  LET e == TrimSpace(str)
  IN SubSeq(e, 1, CHOOSE i \in 0..Len(e) : SplitsAt(e, i))

WrittenOp(str) ==
  LET e == TrimSpace(str)
  IN TrimLeftSet(SubSeq(e, Len(WrittenField(str)) + 1, Len(e)), {" "})

\* the well-formed Filter calls of the chain that produced q, in call order
FilterCalls(q) ==
  SelectSeq(calls[q], LAMBDA c : c.op = "Filter" /\ WellFormed(c.str))

\* the storage columns of q's descriptor: neither excluded nor unnamed
MappedColumns(q) ==
  LET codec == codecHeap[queryHeap[q].codec]
  IN SelectSeq([i \in 1..Len(codec.byIndex) |-> codec.byIndex[i].name],
               LAMBDA name : name \notin {"-", ""})

RECURSIVE SeqToSet(_)
SeqToSet(seq) ==
  IF seq = <<>> THEN {} ELSE {Head(seq)} \cup SeqToSet(Tail(seq))

\* elems[1] sep elems[2] sep ..., built from the right
RECURSIVE Joined(_, _)
Joined(elems, sep) ==
  IF Len(elems) = 0 THEN ""
  ELSE IF Len(elems) = 1 THEN elems[1]
  ELSE Joined(SubSeq(elems, 1, Len(elems) - 1), sep) \o sep
         \o elems[Len(elems)]

\* the number of '?' in str
RECURSIVE Placeholders(_)
Placeholders(str) ==
  IF Len(str) = 0 THEN 0
  ELSE Placeholders(SubSeq(str, 2, Len(str)))
         + (IF CharAt(str, 1) = "?" THEN 1 ELSE 0)

-----------------------------------------------------------------------------
(* C5 *)

\* C5: a Query whose n >= 1 filters all name mapped fields compiles to a
\* statement with " WHERE " and n conditions "<field> <op> ?" joined by
\* " AND " in call order, with the operator as written, and to the n filter
\* values in call order; a Query without filters compiles to no WHERE clause
\* and no arguments.
C5_WhereClause ==
  \A k \in 1..Len(ran) :
    LET q == ran[k].q
        r == ran[k].r
        F == FilterCalls(q)
        conds == [i \in 1..Len(F) |->
                    WrittenField(F[i].str) \o " " \o WrittenOp(F[i].str)
                      \o " ?"]
        where == " WHERE " \o Joined(conds, " AND ")
    IN IF Len(F) = 0
         THEN r.err = nil /\ ~Occurs(" WHERE ", r.cql) /\ r.args = <<>>
         ELSE (\A i \in 1..Len(F) :
                 WrittenField(F[i].str) \in SeqToSet(MappedColumns(q))) =>
                /\ r.err = nil
                /\ EndsWith(r.cql, where) \/ Occurs(where \o " LIMIT ", r.cql)
                /\ Placeholders(r.cql) = Len(F)
                /\ r.args = [i \in 1..Len(F) |-> F[i].value]

\* Run has compiled a Query with two filters on different mapped fields
C5_Witness ==
  \E k \in 1..Len(ran) :
    /\ Len(FilterCalls(ran[k].q)) = 2
    /\ ran[k].r.err = nil
    /\ ran[k].r.args = <<1, 2>>
    /\ WrittenField(FilterCalls(ran[k].q)[2].str) = "timeline"
    /\ iterators[k].cqlQuery = SessionQuery(ran[k].r.cql, <<1, 2>>)

-----------------------------------------------------------------------------
(* C6 *)

\* C6: when a filter of a Query names a field that is not a mapped storage
\* column (the exclusion marker and the empty name included), compilation
\* fails with the field-not-found error naming the first such field and
\* returns no statement, and Run reaches no driver.
C6_UnmappedFieldFails ==
  \A q \in 1..Len(queryHeap) :
    LET fs == QueryView(q).filter
        bad == {i \in 1..Len(fs) :
                  fs[i].FieldName \notin SeqToSet(MappedColumns(q))}
        first == CHOOSE i \in bad : \A j \in bad : i <= j
    IN bad # {} =>
         /\ Compiled(q).err =
              NewError("query : fieldname " \o fs[first].FieldName
                         \o " not found")
         /\ Compiled(q).cql = ""
         /\ \A k \in 1..Len(iterators) : iterators[k].q # q

-----------------------------------------------------------------------------
(* C7 *)

InRange32(w) == -32768 <= w.hi /\ w.hi <= 32767

\* the value of the most recent in-range Limit call of a chain, -1 (the
\* limit of a new Query) when there is none
RECURSIVE LastLimit(_)
LastLimit(chain) ==
  IF chain = <<>> THEN -1
  ELSE LET c == chain[Len(chain)]
       IN IF c.op = "Limit" /\ InRange32(c.n)
            THEN c.n.hi * 65536 + c.n.lo
            ELSE LastLimit(SubSeq(chain, 1, Len(chain) - 1))

\* C7: a compiled read statement ends with " LIMIT n" exactly when the most
\* recent in-range Limit call set n > 0, and has no LIMIT clause otherwise;
\* a Limit call outside the int32 range records a deferred error and leaves
\* the limit as it was.
C7_LimitClause ==
  /\ \A q \in 1..Len(queryHeap) :
       LET last == calls[q][Len(calls[q])]
       IN /\ queryHeap[q].limit = LastLimit(calls[q])
          /\ (calls[q] # <<>> /\ last.op = "Limit" /\ ~InRange32(last.n)) =>
               queryHeap[q].err # nil
  /\ \A k \in 1..Len(ran) :
       LET n == LastLimit(calls[ran[k].q])
           r == ran[k].r
       IN r.err = nil =>
            IF n > 0 THEN EndsWith(r.cql, " LIMIT " \o FormatInt(n))
                     ELSE ~Occurs(" LIMIT ", r.cql)

\* Limit(5) followed by a Limit above the int32 range: the statement still
\* ends with LIMIT 5
C7_Witness ==
  \E k \in 1..Len(ran) :
    LET q == ran[k].q
    IN /\ Len(calls[q]) = 2
       /\ calls[q][1].op = "Limit" /\ calls[q][1].n = Wide(0, 5)
       /\ calls[q][2].op = "Limit" /\ calls[q][2].n = Wide(32768, 0)
       /\ queryHeap[q].err # nil
       /\ EndsWith(ran[k].r.cql, " LIMIT 5")

-----------------------------------------------------------------------------
(* C8 *)

\* the names of the most recent Project call of a chain, none when there is
\* no such call
RECURSIVE LastProject(_)
LastProject(chain) ==
  IF chain = <<>> THEN <<>>
  ELSE LET c == chain[Len(chain)]
       IN IF c.op = "Project" THEN c.names
          ELSE LastProject(SubSeq(chain, 1, Len(chain) - 1))

\* C8: the column list of a compiled SELECT is the names of the most recent
\* Project call, comma-joined in the given order, when that call named any
\* column, and otherwise all mapped columns in declaration order.
C8_ColumnList ==
  \A q \in 1..Len(queryHeap) :
    LET P == LastProject(calls[q])
        cols == IF P # <<>> THEN P ELSE MappedColumns(q)
    IN Compiled(q).err = nil =>
         HasPrefix(Compiled(q).cql,
                   "SELECT " \o Joined(cols, ",") \o " FROM ")

-----------------------------------------------------------------------------
(* Reading the state of the UpdateQuery builder *)

\* every result toCQL can return for u
UCompiled(u) ==
  {UpdateQuery_toCQL(codecHeap, arrayHeap, mapHeap, updateHeap[u], keys) :
     keys \in KeyOrders(mapHeap[updateHeap[u].updates])}

-----------------------------------------------------------------------------
(* C3 *)

\* C3: no Update, Filter or TTL call changes the assignments, filters, TTL
\* or deferred error of any UpdateQuery that already exists, a freshly
\* constructed one included.
C3_UpdateQueryNeverMutated ==
  [][\A u \in 1..Len(updateHeap) : UpdateView(u)' = UpdateView(u)]_vars

-----------------------------------------------------------------------------
(* C9 *)

\* the value of the most recent TTL call of a chain, 0 (the TTL of a new
\* UpdateQuery) when there is none
RECURSIVE LastTTL(_)
LastTTL(chain) ==
  IF chain = <<>> THEN 0
  ELSE LET c == chain[Len(chain)]
       IN IF c.op = "TTL" THEN c.n
          ELSE LastTTL(SubSeq(chain, 1, Len(chain) - 1))

\* C9: an UpdateQuery with a TTL t > 0 compiles to
\* "UPDATE <table> USING TTL <t> SET ...", and one with no TTL or t <= 0 to
\* "UPDATE <table> SET ..." without a USING TTL clause.
C9_UsingTTL ==
  \A u \in 1..Len(updateHeap) :
    \A r \in UCompiled(u) :
      LET t == LastTTL(ucalls[u])
          table == codecHeap[updateHeap[u].codec].columnFamily
      IN r.err = nil =>
           IF t > 0
             THEN HasPrefix(r.cql, "UPDATE " \o table \o " USING TTL "
                                     \o FormatInt(t) \o " SET ")
             ELSE /\ HasPrefix(r.cql, "UPDATE " \o table \o " SET ")
                  /\ ~Occurs("USING TTL", r.cql)

-----------------------------------------------------------------------------
(* C10 *)

\* the columns the Update calls of a chain name
UpdatedColumns(chain) ==
  {chain[i].str : i \in {j \in 1..Len(chain) : chain[j].op = "Update"}}

\* the value of the last Update call for column in the chain
LastValue(chain, column) ==
  LET last == CHOOSE i \in 1..Len(chain) :
                /\ chain[i].op = "Update" /\ chain[i].str = column
                /\ \A j \in (i + 1)..Len(chain) :
                     ~(chain[j].op = "Update" /\ chain[j].str = column)
  IN chain[last].value

\* where the assignment "<column> = ?" starts in the SET clause of cql
AssignmentsOf(column, cql) ==
  {i \in 1..(Len(cql) - Len(column) - 3) :
     /\ SubSeq(cql, i, i + Len(column) + 3) = column \o " = ?"
     /\ \/ i > 4 /\ SubSeq(cql, i - 4, i - 1) = "SET "
        \/ i > 2 /\ SubSeq(cql, i - 2, i - 1) = ", "}

\* C10: in every statement compiled from a chain of Update calls, each
\* column the chain names has exactly one assignment "<column> = ?", and
\* the argument bound to its placeholder is the value of the last Update
\* call for that column.
C10_LastUpdateWins ==
  \A n \in 1..Len(cqlResults) :
    LET u == cqlResults[n].u
        r == cqlResults[n].r
    IN r.err = nil =>
         \A column \in UpdatedColumns(ucalls[u]) :
           LET at == AssignmentsOf(column, r.cql)
               i == CHOOSE i \in at : TRUE
               k == Placeholders(SubSeq(r.cql, 1, i + Len(column) + 3))
           IN /\ Cardinality(at) = 1
              /\ r.args[k] = LastValue(ucalls[u], column)

\* CQL has compiled a chain that assigns the column text twice, the second
\* time with another value
C10_Witness ==
  \E n \in 1..Len(cqlResults) :
    LET chain == ucalls[cqlResults[n].u]
    IN /\ cqlResults[n].r.err = nil
       /\ \E i, j \in 1..Len(chain) :
            /\ i < j
            /\ chain[i].op = "Update" /\ chain[j].op = "Update"
            /\ chain[i].str = "text" /\ chain[j].str = "text"
            /\ chain[i].value # chain[j].value
       /\ cqlResults[n].r.args = <<LastValue(chain, "text")>>

-----------------------------------------------------------------------------
(* C15 *)

\* the calls that have returned to their caller
ReturnedCalls == {p \in Procs : pc[p] = "returned"}

\* C15: a failed derivation leaves no cache entry for its type once the
\* call has returned and the mutex is free, its caller receives a nil codec,
\* no caller ever holds a codec that is not fully built, every other call
\* for the same type fails with the same error, and the entries of the
\* types already handed out stay in place.
C15_FailedDerivationLeavesNothing ==
  /\ \A p \in ReturnedCalls :
       IF frame[p].err # nil
         THEN /\ frame[p].ret = 0
              /\ handedOut[frame[p].t] = {}
              /\ structCodecsMutex = 0 => structCodecs[frame[p].t] = 0
              /\ \A q \in ReturnedCalls :
                   frame[q].t = frame[p].t => frame[q].err = frame[p].err
         ELSE FullyBuilt(codecHeap[frame[p].ret], frame[p].t)
  /\ \A t \in Types :
       /\ structCodecsMutex = 0 /\ structCodecs[t] # 0 =>
            FullyBuilt(codecHeap[structCodecs[t]], t)
       /\ handedOut[t] # {} => structCodecs[t] \in handedOut[t]

\* two calls for Dash, whose derivation fails at its second field, have
\* both returned the error while the codec of Tweet stays cached
C15_Witness ==
  \E p, q \in ReturnedCalls :
    /\ p # q
    /\ frame[p].t = "Dash" /\ frame[q].t = "Dash"
    /\ frame[p].err # nil /\ frame[q].err # nil
    /\ structCodecsMutex = 0
    /\ structCodecs["Dash"] = 0
    /\ structCodecs["Tweet"] # 0
    /\ handedOut["Tweet"] = {structCodecs["Tweet"]}

-----------------------------------------------------------------------------
(* C16 *)

\* the name part of a field's annotation
Annotation(f) ==
  IF Occurs(",", f.Tag)
    THEN SubSeq(f.Tag, 1,
                (CHOOSE i \in 1..Len(f.Tag) :
                   /\ CharAt(f.Tag, i) = ","
                   /\ \A j \in 1..(i - 1) : CharAt(f.Tag, j) # ",") - 1)
    ELSE f.Tag

\* the columns the declaration of t maps, in declaration order: every field
\* but the excluded ones, the table-name field and the embedded fields
\* without a name
DeclaredColumns(t) ==
  LET mapped == SelectSeq(Fields(t),
                          LAMBDA f : /\ f.Name # "ColumnFamily"
                                     /\ Annotation(f) # "-"
                                     /\ ~(f.Anonymous /\ Annotation(f) = ""))
  IN [k \in 1..Len(mapped) |->
        IF Annotation(mapped[k]) = "" THEN mapped[k].Name
        ELSE Annotation(mapped[k])]

\* C16: the column list of every successfully derived descriptor is the
\* columns its type declares, comma-joined in declaration order: no empty
\* name and no exclusion marker, one column for every other field.
C16_DescriptorColumns ==
  \A t \in Types :
    \A c \in handedOut[t] :
      getColumnStr(codecHeap[c]) = Joined(DeclaredColumns(t), ",")

-----------------------------------------------------------------------------
(* C19 *)

\* filter expressions of every shape Filter tells apart: blank, no
\* operator, one of the five operators, an unknown operator token, an
\* operator without a field name
FilterExprInputs ==
  { <<" ", 1>>, <<"id", 2>>, <<"id<=", 3>>, <<"id !=", 4>>, <<"id > =", 5>>,
    <<" >= ", 6>> }

NextFilter ==
  \/ \E t \in {"Tweet"} : NewQuery(t)
  \/ \E q \in 1..Len(queryHeap), in \in FilterExprInputs : Filter(q, in)
  \/ \E q \in 1..Len(queryHeap), fieldName \in {"-timeline"} :
       Order(q, fieldName)
  \/ \E q \in 1..Len(queryHeap), limit \in {Wide(0, 5)} : Limit(q, limit)
  \/ \E t \in {"Tweet"} : NewUpdateQuery(t)
  \/ \E u \in 1..Len(updateHeap), in \in FilterExprInputs : UFilter(u, in)
  \/ \E u \in 1..Len(updateHeap), in \in {<<"text", 1>>} : Update(u, in)

SpecFilter == Init /\ [][NextFilter]_vars

\* the expression, trimmed, is a non-empty field name, optional spaces and
\* one of the five operators
FieldAndOperator(str) ==
  \E i \in 1..Len(TrimSpace(str)) : SplitsAt(TrimSpace(str), i)

WrittenFilter(str, value) ==
  filter(WrittenField(str),
         CHOOSE op \in DOMAIN filterOpMapping :
           filterOpMapping[op] = WrittenOp(str),
         value)

\* C19: a Filter call whose expression is a field name and one of the five
\* operators returns a builder with exactly that one filter added; every
\* other Filter call returns a builder with the deferred error set and the
\* receiver's filters, orders, projection and limit (for an UpdateQuery:
\* filters, TTL and assignments).  Hence every stored filter has a
\* non-empty field name and one of the five operators.
C19_FilterAddsOneIffWellFormed ==
  /\ [][/\ \A q \in 1..Len(queryHeap), in \in FilterExprInputs :
            Filter(q, in) =>
              IF FieldAndOperator(in[1])
                THEN QueryView(Len(queryHeap))'.filter =
                       Append(QueryView(q).filter,
                              WrittenFilter(in[1], in[2]))
                ELSE /\ QueryView(Len(queryHeap))'.err # nil
                     /\ QueryView(Len(queryHeap))'.filter
                          = QueryView(q).filter
                     /\ QueryView(Len(queryHeap))'.order
                          = QueryView(q).order
                     /\ QueryView(Len(queryHeap))'.projection
                          = QueryView(q).projection
                     /\ QueryView(Len(queryHeap))'.limit
                          = QueryView(q).limit
        /\ \A u \in 1..Len(updateHeap), in \in FilterExprInputs :
            UFilter(u, in) =>
              IF FieldAndOperator(in[1])
                THEN UpdateView(Len(updateHeap))'.filter =
                       Append(UpdateView(u).filter,
                              WrittenFilter(in[1], in[2]))
                ELSE /\ UpdateView(Len(updateHeap))'.err # nil
                     /\ UpdateView(Len(updateHeap))'.filter
                          = UpdateView(u).filter
                     /\ UpdateView(Len(updateHeap))'.ttl
                          = UpdateView(u).ttl
                     /\ UpdateView(Len(updateHeap))'.updates
                          = UpdateView(u).updates]_vars
  /\ [](/\ \A q \in 1..Len(queryHeap) :
            \A k \in 1..Len(QueryView(q).filter) :
              /\ QueryView(q).filter[k].FieldName # ""
              /\ QueryView(q).filter[k].Op \in DOMAIN filterOpMapping
        /\ \A u \in 1..Len(updateHeap) :
            \A k \in 1..Len(UpdateView(u).filter) :
              /\ UpdateView(u).filter[k].FieldName # ""
              /\ UpdateView(u).filter[k].Op \in DOMAIN filterOpMapping)

-----------------------------------------------------------------------------
(* C18 *)

\* the first position at which s occurs in str, 0 when it does not
IndexOf(str, s) ==
  IF Occurs(s, str)
    THEN CHOOSE i \in 1..(Len(str) - Len(s) + 1) :
           /\ SubSeq(str, i, i + Len(s) - 1) = s
           /\ \A j \in 1..(i - 1) : SubSeq(str, j, j + Len(s) - 1) # s
    ELSE 0

\* str cut at every occurrence of sep
RECURSIVE SplitOn(_, _)
SplitOn(str, sep) ==
  IF IndexOf(str, sep) = 0 THEN <<str>>
  ELSE <<SubSeq(str, 1, IndexOf(str, sep) - 1)>>
         \o SplitOn(SubSeq(str, IndexOf(str, sep) + Len(sep), Len(str)), sep)

\* the text of the SET clause of an UPDATE statement
SetClause(cql) ==
  LET from == IndexOf(cql, "SET ") + 4
      to == IF Occurs(" WHERE ", cql) THEN IndexOf(cql, " WHERE ") - 1
            ELSE Len(cql)
  IN SubSeq(cql, from, to)

\* the columns of the assignments of that clause, in the order written;
\* <<"?">> marks a clause that is not a list of "<column> = ?"
SetColumns(cql) ==
  LET parts == IF SetClause(cql) = "" THEN <<>>
               ELSE SplitOn(SetClause(cql), ", ")
  IN IF \A k \in 1..Len(parts) : EndsWith(parts[k], " = ?")
       THEN [k \in 1..Len(parts) |->
               SubSeq(parts[k], 1, Len(parts[k]) - 4)]
       ELSE <<"?">>

\* C18: in every statement compiled from an UpdateQuery, under every
\* iteration order of the assignment map, the SET clause has one
\* "<column> = ?" per assigned column, its k-th is bound to the k-th
\* argument and that argument is the value assigned to the column; the
\* arguments of the WHERE clause follow in filter order, and the statement
\* has as many '?' as it has arguments.
C18_UpdateArguments ==
  \A n \in 1..Len(cqlResults) :
    LET r == cqlResults[n].r
        assigned == cqlResults[n].read.updates
        filters == cqlResults[n].read.filter
        columns == SetColumns(r.cql)
    IN r.err = nil =>
         /\ Len(columns) = Cardinality(DOMAIN assigned)
         /\ SeqToSet(columns) = DOMAIN assigned
         /\ Len(r.args) = Len(columns) + Len(filters)
         /\ \A k \in 1..Len(columns) : r.args[k] = assigned[columns[k]]
         /\ \A k \in 1..Len(filters) :
              r.args[Len(columns) + k] = filters[k].Value
         /\ Placeholders(r.cql) = Len(r.args)

\* a statement with two assignments of different values has been compiled
\* with the map iterated in the order timeline, text
C18_Witness ==
  \E n \in 1..Len(cqlResults) :
    LET r == cqlResults[n].r
    IN /\ r.err = nil
       /\ cqlResults[n].keys = <<"timeline", "text">>
       /\ SetColumns(r.cql) = <<"timeline", "text">>
       /\ r.args[1] # r.args[2]

-----------------------------------------------------------------------------
(* Saving records, running a Query and reading its Iterator *)

\* the records the caller saves, the destinations it passes (a pointer to
\* a zero-valued record, and a record passed by value), and the errors the
\* driver can meet while it unmarshals a row
SaveInputs ==
  { Record("Tweet", TRUE, <<0, 10, 1, 100>>),
    Record("Tweet", TRUE, <<0, 20, 2, 200>>) }
DstInputs ==
  { Record("Tweet", TRUE, <<0, 0, 0, 0>>),
    Record("Tweet", FALSE, <<0, 0, 0, 0>>) }
ScanFaults == { nil, NewError("gocql: can not unmarshal") }

NextIter ==
  \/ \E t \in {"Tweet"} : NewQuery(t)
  \/ \E q \in 1..Len(queryHeap), in \in {<<"id =", 1>>} : Filter(q, in)
  \/ \E src \in SaveInputs : SaveEntity(src)
  \/ \E q \in 1..Len(queryHeap) : Run(q)
  \/ \E p \in DstInputs, fault \in ScanFaults : Iterator_Next(p, fault)
  \/ Iterator_Close

SpecIter == Init /\ [][NextIter]_vars

-----------------------------------------------------------------------------
(* C11 *)

\* the caller holds an Iterator with a cursor, and the last call on it was
\* Next with a pointer to a record
NextReturned ==
  /\ Len(iterators) = 1
  /\ iterators[1].iter # NoIter
  /\ ret.op = "Next"
  /\ dst.ptr

\* the field of the record type t whose declaration names the column
DeclaredField(t, column) ==
  CHOOSE i \in 1..NumField(t) :
    /\ Fields(t)[i].Name # "ColumnFamily"
    /\ column = IF Annotation(Fields(t)[i]) = "" THEN Fields(t)[i].Name
                ELSE Annotation(Fields(t)[i])

\* the record v of type t holds the values of the row under the columns
Delivered(t, v, columns, row) ==
  \A n \in 1..Len(columns) : v[DeclaredField(t, columns[n])] = row[n]

\* C11: on a cursor of n rows that reports no driver error, a Next call
\* (with a pointer to a record) made when k < n rows have been read returns
\* no error, delivers row k + 1 and leaves k + 1 rows read; made when all n
\* rows have been read (at once when n = 0) it returns Done.  Done is
\* never returned while a row remains unread.
C11_RowsThenDone ==
  NextReturned =>
    LET rows == Opened(cursor).rows
    IN /\ cursor.err = nil =>
            IF ret.pos < Len(rows)
              THEN /\ ret.err = nil
                   /\ cursor.pos = ret.pos + 1
                   /\ Delivered(dst.t, dst.v, Opened(cursor).columns,
                                rows[ret.pos + 1])
              ELSE /\ ret.err = Done
                   /\ cursor.pos = Len(rows)
       /\ ret.err = Done => ret.pos = Len(rows)

\* two rows have been read from a cursor of two rows, and the third Next
\* has returned Done
C11_Witness ==
  /\ NextReturned
  /\ Len(Opened(cursor).rows) = 2
  /\ ret = Returns("Next", Done, 2, "no row")

-----------------------------------------------------------------------------
(* C20 *)

\* C20: when the scan of a Next call has read no row, the cursor is closed
\* when the call returns, and the call returns the error of the close if
\* there is one and Done otherwise; so Done means a closed cursor without
\* an error.
C20_ClosedBeforeDone ==
  NextReturned =>
    /\ ret.scan = "no row" =>
         /\ cursor.closed
         /\ ret.err = IF cursor.err # nil THEN cursor.err ELSE Done
    /\ ret.err = Done => cursor.closed /\ cursor.err = nil

\* the driver failed to unmarshal a row that was there: Next has closed the
\* cursor and returned the driver's error
C20_Witness ==
  /\ NextReturned
  /\ ret.scan = "no row"
  /\ ret.pos < Len(Opened(cursor).rows)
  /\ cursor.closed
  /\ ret.err = NewError("gocql: can not unmarshal")

-----------------------------------------------------------------------------
(* C13 *)

\* the table the record type t names, and the fields of t that are mapped
DeclaredTable(t) ==
  Annotation(Fields(t)[CHOOSE i \in 1..NumField(t) :
                         Fields(t)[i].Name = "ColumnFamily"])

MappedFields(t) ==
  {i \in 1..NumField(t) :
     /\ Fields(t)[i].Name # "ColumnFamily"
     /\ Annotation(Fields(t)[i]) # "-"
     /\ ~(Fields(t)[i].Anonymous /\ Annotation(Fields(t)[i]) = "")}

\* the last SaveEntity stored its record in a table that was empty, the
\* Query run after it has no projection and the one filter "key = the
\* record's key", and the first row of its cursor has been loaded, without
\* a driver error, into a zero-valued record of the same type
SavedThenLoaded ==
  /\ Len(saves) = 1 /\ saves[1].err = nil
  /\ saves[1].before[DeclaredTable(saves[1].src.t)] = <<>>
  /\ NextReturned
  /\ cursor.db[DeclaredTable(saves[1].src.t)] # <<>>
  /\ TypeOfQuery(ran[1].q) = saves[1].src.t
  /\ ran[1].read.projection = <<>>
  /\ ran[1].read.filter =
       <<filter(Schema[DeclaredTable(saves[1].src.t)].key, equal,
                saves[1].src.v[DeclaredField(
                  saves[1].src.t,
                  Schema[DeclaredTable(saves[1].src.t)].key)])>>
  /\ ret.pos = 0
  /\ cursor.err = nil
  /\ dst.t = saves[1].src.t

\* C13: a record saved into an empty table and loaded back through a Query
\* with an '=' filter on its key comes back equal to the saved record in
\* every mapped field.
C13_RoundTrip ==
  SavedThenLoaded =>
    /\ ret.err = nil
    /\ \A i \in MappedFields(dst.t) : dst.v[i] = saves[1].src.v[i]

\* the record with key 1 has come back
C13_Witness ==
  /\ SavedThenLoaded
  /\ ret.err = nil
  /\ saves[1].src.v = <<0, 10, 1, 100>>
  /\ dst.v = <<0, 10, 1, 100>>

-----------------------------------------------------------------------------
(* C12 *)

NextFirst ==
  \/ \E t \in {"Tweet"} : NewQuery(t)
  \/ \E q \in 1..Len(queryHeap), in \in {<<"id =", 1>>, <<"nofield =", 1>>} :
       Filter(q, in)
  \/ \E src \in SaveInputs : SaveEntity(src)
  \/ \E q \in 1..Len(queryHeap), p \in DstInputs, fault \in ScanFaults :
       First(q, p, fault)

SpecFirst == Init /\ [][NextFirst]_vars

\* C12: First returns an error whenever compiling the query, pulling the
\* row (an invalid destination, a driver error, no row at all) or closing
\* the cursor failed, and returns nil only when a row was loaded into the
\* destination.
C12_FirstPropagatesErrors ==
  \A n \in 1..Len(firsts) :
    /\ firsts[n].compile # nil => firsts[n].ret = firsts[n].compile
    /\ firsts[n].next \notin {nil, NotCalled} => firsts[n].ret # nil
    /\ firsts[n].close \notin {nil, NotCalled} => firsts[n].ret # nil
    /\ firsts[n].ret = nil => firsts[n].scan = "row"

-----------------------------------------------------------------------------
(* C17 *)

\* records of every kind are saved: of a type with a column named twice,
\* of a type with an unnamed embedded field, of a type without a table
\* name, and a record passed by value
NextSave ==
  \/ \E t \in TypeInputs : NewQuery(t)
  \/ \E src \in SaveInputs \cup
                 { Record("Dup", TRUE, <<0, 7, 8>>),
                   Record("User", TRUE, <<5, 0, 6, 30>>),
                   Record("Point", TRUE, <<3>>),
                   Record("Tweet", FALSE, <<0, 10, 1, 100>>) } :
       SaveEntity(src)
  \/ \E q \in 1..Len(queryHeap) : Run(q)

SpecSave == Init /\ [][NextSave]_vars

\* the fields of t whose declaration produces a column, in declaration
\* order: all but the table-name field and the excluded fields
RECURSIVE ProducingFrom(_, _)
ProducingFrom(t, i) ==
  IF i > NumField(t) THEN <<>>
  ELSE IF Fields(t)[i].Name # "ColumnFamily" /\ Annotation(Fields(t)[i]) # "-"
    THEN <<i>> \o ProducingFrom(t, i + 1)
  ELSE ProducingFrom(t, i + 1)

\* C17: the INSERT of every save has as many column names as '?' and as
\* bound values, and its k-th value is the value of the field whose
\* declaration produced its k-th column.
C17_InsertAligned ==
  \A n \in 1..Len(saves) :
    saves[n].cql # "" =>
      LET src == saves[n].src
          columns == Bracketed(SplitFrom(saves[n].cql, " ", 1, 1)[4])
          producing == ProducingFrom(src.t, 1)
      IN /\ Len(columns) = Placeholders(saves[n].cql)
         /\ Len(columns) = Len(saves[n].vals)
         /\ Len(columns) = Len(producing)
         /\ \A k \in 1..Len(columns) :
              saves[n].vals[k] = src.v[producing[k]]

-----------------------------------------------------------------------------
(* C14 *)

NextNew ==
  \/ \E t \in {"Tweet", "Plain", "Point", "Dash"} : NewQuery(t)
  \/ \E t \in {"Tweet", "Plain", "Point", "Dash"} : NewUpdateQuery(t)
  \/ \E q \in 1..Len(queryHeap) : Run(q)
  \/ \E u \in 1..Len(updateHeap) : CQL(u)
  \/ \E kind \in {"", "tweet"}, p \in DstInputs : NewQueryKind(kind, p)
  \/ RunKind

SpecNew == Init /\ [][NextNew]_vars

\* the record type t resolves to a table name: it has a ColumnFamily field
\* whose annotation has a name other than "-"
Resolves(t) ==
  \E i \in 1..NumField(t) :
    /\ Fields(t)[i].Name = "ColumnFamily"
    /\ Annotation(Fields(t)[i]) \notin {"", "-"}

\* the word that follows the keyword in the statement
WordAfter(keyword, cql) ==
  LET w == SplitFrom(cql, " ", 1, 1)
  IN IF \E k \in 1..(Len(w) - 1) : w[k] = keyword
       THEN w[(CHOOSE k \in 1..(Len(w) - 1) : w[k] = keyword) + 1]
       ELSE ""

\* C14: every Query and UpdateQuery that was constructed from a type is of
\* a type that resolves to a table name, every Query that was constructed
\* with an explicit table name has a non-empty one, and every statement
\* compiled from them names a non-empty table.
C14_TableNameResolved ==
  /\ \A q \in 1..Len(queryHeap) : Resolves(TypeOfQuery(q))
  /\ \A u \in 1..Len(updateHeap) :
       \A t \in Types : structCodecs[t] = updateHeap[u].codec => Resolves(t)
  /\ \A n \in 1..Len(explicit) :
       /\ explicit[n].err = nil => explicit[n].kind # ""
       /\ explicit[n].cql # "" => WordAfter("FROM", explicit[n].cql) # ""
  /\ \A n \in 1..Len(ran) :
       ran[n].r.err = nil => WordAfter("FROM", ran[n].r.cql) # ""
  /\ \A n \in 1..Len(cqlResults) :
       cqlResults[n].r.err = nil =>
         WordAfter("UPDATE", cqlResults[n].r.cql) # ""

-----------------------------------------------------------------------------
(* C21 *)

\* A caller that builds a Query and an UpdateQuery side by side: both are
\* constructed for the same type, and every Filter call is made on the one
\* and on the other with the same expression and value.  The k-th Query
\* and the k-th UpdateQuery are then the results of the same calls.
WhereInputs ==
  { <<"id =", 1>>, <<" timeline>= ", 2>>, <<"nofield <", 3>>,
    <<"id !=", 4>> }

NewBoth(t) ==
  /\ Len(queryHeap) < MaxQueries
  /\ Len(updateHeap) < MaxUpdates
  /\ \E r \in {getStructCodecLocked(structCodecs, codecHeap, t)} :
     \E s \in {getStructCodecLocked(r.cache, r.heap, t)} :
       /\ r.err = nil
       /\ s.err = nil
       /\ structCodecs' = s.cache
       /\ codecHeap' = s.heap
       /\ newErr' = s.err
       /\ queryHeap' = Append(queryHeap, NewQueryStruct(r.ret))
       /\ calls' = Append(calls, <<>>)
       /\ updateHeap' =
            Append(updateHeap, NewUpdateQueryStruct(s.ret, Len(mapHeap) + 1))
       /\ mapHeap' = Append(mapHeap, <<>>)
       /\ ucalls' = Append(ucalls, <<>>)
  /\ UNCHANGED <<structCodecsMutex, pc, frame, handedOut, arrayHeap,
                 iterators, ran, cqlResults, callerVars>>

FilterBoth(k, in) ==
  /\ Len(queryHeap) < MaxQueries
  /\ Len(updateHeap) < MaxUpdates
  /\ \E Q \in {Query_Filter(QS, k, in[1], in[2])} :
     \E U \in {UpdateQuery_Filter([uh |-> updateHeap, ah |-> Q.ah,
                                   mh |-> mapHeap], k, in[1], in[2])} :
       /\ queryHeap' = Q.qh
       /\ updateHeap' = U.uh
       /\ arrayHeap' = U.ah
       /\ mapHeap' = U.mh
       /\ calls' = Append(calls,
                          Append(calls[k],
                                 Call_("Filter", in[1], in[2], <<>>,
                                       Wide(0, 0))))
       /\ ucalls' = Append(ucalls,
                           Append(ucalls[k],
                                  Call_("Filter", in[1], in[2], <<>>, 0)))
  /\ UNCHANGED <<codecVars, iterators, ran, newErr, cqlResults, callerVars>>

NextWhere ==
  \/ \E t \in {"Tweet"} : NewBoth(t)
  \/ \E k \in 1..Len(queryHeap), in \in WhereInputs : FilterBoth(k, in)
  \/ \E q \in 1..Len(queryHeap) : Run(q)
  \/ \E u \in 1..Len(updateHeap) : CQL(u)
  \/ \E u \in 1..Len(updateHeap) : URun(u)

SpecWhere == Init /\ [][NextWhere]_vars

\* the WHERE clause of a statement, "" when it has none
WhereText(cql) ==
  IF Occurs(" WHERE ", cql)
    THEN SubSeq(cql, IndexOf(cql, " WHERE "), Len(cql))
    ELSE ""

\* the arguments toCQL returned for the WHERE clause of n filters: the
\* last n of a statement, all there are of a failed compilation
WhereArgs(r, n) ==
  IF r.err # nil THEN r.args
  ELSE SubSeq(r.args, Len(r.args) - n + 1, Len(r.args))

\* C21: the k-th Query and the k-th UpdateQuery, built from the same type
\* by the same Filter calls, hold the same filters and both or neither
\* carry a deferred error (the same one); and when both have been compiled
\* the two results have the same WHERE text, the same WHERE arguments and
\* the same field-not-found error.
C21_SameWhere ==
  /\ \A k \in 1..Len(queryHeap) :
       /\ k <= Len(updateHeap)
       /\ queryHeap[k].codec = updateHeap[k].codec
       /\ QueryView(k).filter = UpdateView(k).filter
       /\ queryHeap[k].err = updateHeap[k].err
  /\ \A i \in 1..Len(ran), j \in 1..Len(cqlResults) :
       ran[i].q = cqlResults[j].u =>
         LET n == Len(QueryView(ran[i].q).filter)
         IN /\ ran[i].r.err = cqlResults[j].r.err
            /\ WhereText(ran[i].r.cql) = WhereText(cqlResults[j].r.cql)
            /\ WhereArgs(ran[i].r, n) = WhereArgs(cqlResults[j].r, n)

\* a Query and an UpdateQuery with the same two filters on mapped fields
\* have been compiled
C21_Witness ==
  /\ \E i \in 1..Len(ran), j \in 1..Len(cqlResults) :
       /\ ran[i].q = cqlResults[j].u
       /\ Len(QueryView(ran[i].q).filter) = 2
       /\ ran[i].r.err = nil
       /\ WhereText(cqlResults[j].r.cql) = " WHERE id = ? AND timeline >= ?"
       /\ cqlResults[j].r.args = <<1, 2>>

-----------------------------------------------------------------------------
(* C22 *)

\* order expressions: ascending, descending, descending with spaces around
\* the sign, and the three Order rejects
OrderExprInputs == { "id", "-timeline", " - text ", "+id", "", "-" }

NextOrder ==
  \/ \E t \in {"Tweet"} : NewQuery(t)
  \/ \E q \in 1..Len(queryHeap), in \in {<<"id =", 1>>, <<"nofield <", 3>>} :
       Filter(q, in)
  \/ \E q \in 1..Len(queryHeap), fieldName \in OrderExprInputs :
       Order(q, fieldName)
  \/ \E q \in 1..Len(queryHeap), limit \in {Wide(0, 5)} : Limit(q, limit)
  \/ \E q \in 1..Len(queryHeap) : Run(q)

SpecOrder == Init /\ [][NextOrder]_vars

\* q2 is what an Order call on q1 (or on a Query built as q1 was) returned,
\* and the call stored an order entry
OrderedFrom(q1, q2) ==
  /\ queryHeap[q1].codec = queryHeap[q2].codec
  /\ Len(calls[q2]) = Len(calls[q1]) + 1
  /\ SubSeq(calls[q2], 1, Len(calls[q1])) = calls[q1]
  /\ calls[q2][Len(calls[q2])].op = "Order"
  /\ QueryView(q2).order # QueryView(q1).order

-----------------------------------------------------------------------------
(* C23 *)

\* Run on Queries that compile and on Queries whose filter names a field
\* the record type does not have, and the calls on the Iterator it returns
NextFailed ==
  \/ \E t \in {"Tweet"} : NewQuery(t)
  \/ \E q \in 1..Len(queryHeap), in \in {<<"id =", 1>>, <<"nofield =", 1>>} :
       Filter(q, in)
  \/ \E src \in {Record("Tweet", TRUE, <<0, 10, 1, 100>>)} : SaveEntity(src)
  \/ \E q \in 1..Len(queryHeap) : Run(q)
  \/ \E p \in DstInputs, fault \in ScanFaults : Iterator_Next(p, fault)
  \/ Iterator_Close

SpecFailed == Init /\ [][NextFailed]_vars

\* the caller holds the Iterator of a Run whose compilation failed
CompileFailed ==
  /\ Len(iterators) = 1
  /\ Len(ran) = 1
  /\ ran[1].r.err # nil

\* C23: the Iterator Run returns after a compile failure holds the compile
\* error and no cursor, and a Close call on it, or a Next call with a
\* pointer to a record, returns that error.
C23_FailedIteratorReportsError ==
  CompileFailed =>
    /\ iterators[1].err = ran[1].r.err
    /\ iterators[1].iter = NoIter
    /\ (ret.op = "Close" \/ (ret.op = "Next" /\ dst.ptr)) =>
         ret.err = iterators[1].err

-----------------------------------------------------------------------------
(* C24 *)

\* The loop of example/main.go and of the README,
\*   for err := iter.Next(&tweet); err != Done; err = iter.Next(&tweet) {}
\* The field op of ret is the caller's position: "" before the first call,
\* "Next" when a call has returned and its result is not yet tested, "loop"
\* when the test has let the caller into the body.  The first call picks
\* the destination, the later calls pass the same one.
LoopNext(fault) ==
  \/ /\ ret.op = ""
     /\ \E p \in DstInputs : Iterator_Next(p, fault)
  \/ /\ ret.op = "loop"
     /\ Iterator_Next(dst, fault)

\* err != Done
LoopTest ==
  /\ ret.op = "Next"
  /\ ret.err # Done
  /\ ret' = [ret EXCEPT !.op = "loop"]
  /\ UNCHANGED <<codecVars, queryVars, updateVars, db, cursor, dst, saves,
                 firsts, explicit>>

\* the loop has ended
LoopEnded == ret.op = "Next" /\ ret.err = Done

\* The caller builds Queries that compile and saves records, runs a Query
\* and loops over its Iterator; after the loop it may run another Query.
NextLoop ==
  \/ ret.op = "" /\ \E t \in {"Tweet"} : NewQuery(t)
  \/ /\ ret.op = ""
     /\ \E q \in 1..Len(queryHeap), in \in {<<"id =", 1>>} : Filter(q, in)
  \/ ret.op = "" /\ \E src \in SaveInputs : SaveEntity(src)
  \/ (ret.op = "" \/ LoopEnded) /\ \E q \in 1..Len(queryHeap) : Run(q)
  \/ \E fault \in ScanFaults : LoopNext(fault)
  \/ LoopTest

\* The caller is a sequential program: a loop that can take its next step
\* takes it.
SpecLoop ==
  /\ Init
  /\ [][NextLoop]_vars
  /\ WF_vars(\E fault \in ScanFaults : LoopNext(fault))
  /\ WF_vars(LoopTest)

\* C24: once Run has returned an Iterator, the loop over it ends: a Next
\* call returns Done.
C24_LoopReachesDone == (Len(iterators) = 1) ~> LoopEnded

-----------------------------------------------------------------------------
(* C25 *)

\* The caller makes one Query and derives builders from it and from what
\* it has derived, then does the same with one UpdateQuery, with every
\* mutator of the two types: Filter and Order with an argument they accept
\* and one they reject, and Project, Limit, TTL and Update.
NextSticky ==
  \/ Len(queryHeap) = 0 /\ \E t \in {"Tweet"} : NewQuery(t)
  \/ \E q \in 1..Len(queryHeap), in \in {<<"id =", 1>>, <<"id !=", 5>>} :
       Filter(q, in)
  \/ \E q \in 1..Len(queryHeap), fieldName \in OrderInputs :
       Order(q, fieldName)
  \/ \E q \in 1..Len(queryHeap), fieldNames \in {<<"id">>} :
       Project(q, fieldNames)
  \/ \E q \in 1..Len(queryHeap), limit \in {Wide(0, 5)} : Limit(q, limit)
  \/ /\ Len(queryHeap) = MaxQueries
     /\ Len(updateHeap) = 0
     /\ \E t \in {"Tweet"} : NewUpdateQuery(t)
  \/ \E u \in 1..Len(updateHeap), in \in {<<"id =", 1>>, <<"id !=", 3>>} :
       UFilter(u, in)
  \/ \E u \in 1..Len(updateHeap), ttl \in {120} : TTL(u, ttl)
  \/ \E u \in 1..Len(updateHeap), in \in {<<"text", 1>>} : Update(u, in)

SpecSticky == Init /\ [][NextSticky]_vars

\* the call chain s continued by zero or more calls gives the chain t
Continues(s, t) == Len(s) <= Len(t) /\ SubSeq(t, 1, Len(s)) = s

\* C25: a Query built from a Query that carries a deferred error, by zero
\* or more further mutator calls, carries a deferred error; and so does an
\* UpdateQuery built from an UpdateQuery that carries one.
C25_ErrorSticks ==
  /\ \A q1, q2 \in 1..Len(queryHeap) :
       /\ queryHeap[q1].codec = queryHeap[q2].codec
       /\ Continues(calls[q1], calls[q2])
       /\ queryHeap[q1].err # nil
       => queryHeap[q2].err # nil
  /\ \A u1, u2 \in 1..Len(updateHeap) :
       /\ updateHeap[u1].codec = updateHeap[u2].codec
       /\ Continues(ucalls[u1], ucalls[u2])
       /\ updateHeap[u1].err # nil
       => updateHeap[u2].err # nil

\* a Query whose Filter was rejected has been given a limit it accepts, an
\* UpdateQuery whose Filter was rejected has been given a TTL, and both
\* results carry the error of the rejected Filter
C25_Witness ==
  /\ \E q \in 1..Len(queryHeap) :
       /\ Len(calls[q]) = 2
       /\ calls[q][1].op = "Filter"
       /\ calls[q][1].str = "id !="
       /\ calls[q][2].op = "Limit"
       /\ QueryView(q).limit = 5
       /\ queryHeap[q].err # nil
       /\ \E q1 \in 1..Len(queryHeap) :
            /\ calls[q1] = <<calls[q][1]>>
            /\ queryHeap[q1].err = queryHeap[q].err
  /\ \E u \in 1..Len(updateHeap) :
       /\ Len(ucalls[u]) = 2
       /\ ucalls[u][1].op = "Filter"
       /\ ucalls[u][1].str = "id !="
       /\ ucalls[u][2].op = "TTL"
       /\ UpdateView(u).ttl = 120
       /\ updateHeap[u].err # nil
       /\ \E u1 \in 1..Len(updateHeap) :
            /\ ucalls[u1] = <<ucalls[u][1]>>
            /\ updateHeap[u1].err = updateHeap[u].err

====
